---------------------------- MODULE Spec2Model ----------------------------
(***************************************************************************)
(* Model of the stats pipeline of git-leaderboard (src/utils/github.js,    *)
(* the version with caching, commits, pull requests and reviews).          *)
(*                                                                         *)
(* Time.  Instants are integers in milliseconds, as Date.now() and         *)
(* Date.getTime() return them, counted from an origin that is a Sunday     *)
(* 00:00 in the browser's time zone; the zone has no DST change inside the *)
(* modelled range.  An ISO date string is represented by the instant it    *)
(* parses to.  An optional value (null / undefined) is the empty sequence, *)
(* a present one a one-element sequence.                                   *)
(***************************************************************************)
EXTENDS Integers, Sequences, FiniteSets, TLC

VARIABLES
  now,            \* Date.now()
  daysFilter,     \* the window in days; 0 is the falsy "all time" (null)
  repoDataArray,  \* the per-repository inputs of aggregateStats
  aggPc,          \* position of the caller of aggregateStats
  nowAtCall,      \* Date.now() at each call of aggregateStats
  inputAtCall,    \* the argument as it was when each call was made
  aggResult,      \* what each call of aggregateStats returned
  localStorage,   \* the browser store: full key -> parsed JSON text
  cacheTicks,     \* how often the clock has moved on
  cacheSaved,     \* the saveToCache call just made, if it was the last step
  cacheGot,       \* the getFromCache call just made, if it was the last step
  fsPc,           \* position of fetchStats / fetchCommitsAsStats
  fsRetries,      \* the retries argument of the current fetchStats call
  fsRequests,     \* requests sent to the stats/contributors endpoint
  fsAll202,       \* every answer of that endpoint so far was 202
  fsPage,         \* page of the commit listing of fetchCommitsAsStats
  fsCommits,      \* commits collected by fetchCommitsAsStats
  fsPageReqs,     \* commit-page requests sent by fetchCommitsAsStats
  fsDetail,       \* commit-detail requests sent by fetchCommitsAsStats
  fsDetailOk,     \* of these, the ones that returned line stats
  fsFallback,     \* what fetchCommitsAsStats returned, if it was called
  fsResult,       \* what fetchStats returned
  runPc,          \* position of fetchAllStats and of the fetcher it awaits
  runRepos,       \* the repos argument, with what the API serves for each
  runIdx,         \* i + 1: the repository being processed (1-based)
  sinceDate,      \* the start of the window handed to the fetchers
  runCommits,     \* commits collected for the current repository
  runPrs,         \* pull requests collected for the current repository
  runReviews,     \* the review map collected for the current repository
  runPage,        \* page of the listing being fetched
  runCursor,      \* position of the per-PR loop being run
  events,         \* trace of log entries, requests and callback calls
  progress,       \* the values passed to onProgress
  snapshots,      \* the arguments of the calls of onDataUpdate
  runResult,      \* what fetchAllStats returned
  storageFull,        \* localStorage.setItem throws QuotaExceededError
  refused,            \* fetchAllStats: repositories with a listing page answered not ok
  token,              \* App state: the personal access token
  loadingStats,       \* App state: a leaderboard run is in progress
  renderedLoading,    \* loadingStats as of the last committed render
  autoRefreshRef,     \* the auto-refresh interval is set
  autoRefreshEnabled, \* App state: the auto-refresh checkbox
  leaderboardShown,   \* App state: leaderboard.length > 0
  hasSelection,       \* App state: selectedRepos.length > 0
  activeRuns,         \* calls of fetchAllStats that have not settled
  pageLoads,          \* how often the page has been reloaded
  error,              \* App state: the error message shown
  frPc,               \* fetchRepos: idle, fetching, returned or threw
  frCalls,            \* fetchRepos: calls made so far
  frListing,          \* fetchRepos: repositories the organization has
  frPage,             \* fetchRepos: page
  frRequests,         \* fetchRepos: requests sent by the current call
  frCount,            \* fetchRepos: repos.length
  frLast,             \* fetchRepos: the last response, if any
  frError,            \* fetchRepos: the Error thrown, if any
  frResult,           \* fetchRepos: the value returned, if any
  keyGot              \* cache keys: the last read, its query and its result

aggVars ==
  <<daysFilter, repoDataArray, aggPc, nowAtCall, inputAtCall, aggResult>>

cacheVars == <<localStorage, cacheTicks, cacheSaved, cacheGot>>

fsVars ==
  <<fsPc, fsRetries, fsRequests, fsAll202, fsPage, fsCommits, fsPageReqs,
    fsDetail, fsDetailOk, fsFallback, fsResult>>

runVars ==
  <<runPc, runRepos, runIdx, sinceDate, runCommits, runPrs, runReviews,
    runPage, runCursor, events, progress, snapshots, runResult, storageFull,
    refused>>

appVars ==
  <<token, loadingStats, renderedLoading, autoRefreshRef, autoRefreshEnabled,
    leaderboardShown, hasSelection, activeRuns, pageLoads, error>>

frVars ==
  <<frPc, frCalls, frListing, frPage, frRequests, frCount, frLast, frError,
    frResult>>

keyVars == <<keyGot>>

vars ==
  <<now, aggVars, cacheVars, fsVars, runVars, appVars, frVars, keyVars>>

---------------------------------------------------------------------------
(* Bounds of the model *)

MaxItems == 2
MaxTicks == 2
MaxRepos == 3
MaxRuns == 2
MaxLoads == 1
MaxCalls == 2
MaxEntries == 1

---------------------------------------------------------------------------
(* Time arithmetic *)

SecMs == 1000
DayMs == 24 * 60 * 60 * 1000
WeekSec == 7 * 24 * 60 * 60
CommitsListCap == 20
PrsListCap == 20
ReviewsListCap == 20
DefaultWeeks == 52

\* weekStart.setHours(0,0,0,0); weekStart.setDate(getDate() - getDay());
\* Math.floor(weekStart.getTime() / 1000)
weekTs(ms) == (ms - (ms % (WeekSec * SecMs))) \div SecMs

\* Math.floor((Date.now() - daysFilter * 24*60*60*1000) / 1000), or 0
cutoffTimestamp(days, t) ==
  IF days # 0 THEN (t - days * DayMs) \div SecMs ELSE 0

\* Date.now() - daysFilter * 24*60*60*1000, or 0  (reviews)
cutoffMs(days, t) == IF days # 0 THEN t - days * DayMs ELSE 0

\* (mutant) the division rounds down
maxWeeksFloor(days) == IF days # 0 THEN days \div 7 ELSE DefaultWeeks

\* Math.ceil(daysFilter / 7), or 52
maxWeeks(days) == IF days # 0 THEN (days + 6) \div 7 ELSE DefaultWeeks

---------------------------------------------------------------------------
(* aggregateStats: the per-login accumulator (userMap) *)

ZeroBucket ==
  [additions |-> 0, deletions |-> 0, commits |-> 0, pullRequests |-> 0,
   reviews |-> 0]

\* the object literal a login gets when it is first seen.  userMap is the
\* sequence of these in insertion order (the order of Object.values).
\* Display-only fields (avatar, message, title, url, state) are left out.
NewStats(u) ==
  [user |-> u, additions |-> 0, deletions |-> 0, commits |-> 0,
   pullRequests |-> 0, reviews |-> 0, reposContributed |-> {},
   weeklyData |-> <<>>, prsList |-> <<>>, reviewsList |-> <<>>,
   commitsList |-> <<>>]

userIndex(userMap, u) ==
  IF \E i \in 1..Len(userMap) : userMap[i].user = u
  THEN CHOOSE i \in 1..Len(userMap) : userMap[i].user = u
  ELSE 0

\* if (!userMap[user]) userMap[user] = {...}
ensureUser(userMap, u) ==
  IF userIndex(userMap, u) = 0 THEN Append(userMap, NewStats(u)) ELSE userMap

\* if (!weeklyData[weekTs]) weeklyData[weekTs] = {0, 0, 0, 0, 0}
touchWeek(weeklyData, ts) ==
  IF ts \in DOMAIN weeklyData THEN weeklyData
  ELSE weeklyData @@ (ts :> ZeroBucket)

\* the commit passes "if (daysFilter && commit.date) { if (ts < cutoff) return }"
commitInWindow(commit, days, t) ==
  ~(days # 0 /\ commit.date \div SecMs < cutoffTimestamp(days, t))

\* one iteration of commits.forEach
processCommit(userMap, commit, repoName, days, t) ==
  IF commit.user = "" THEN userMap
  ELSE IF ~commitInWindow(commit, days, t) THEN userMap
  ELSE
    LET m  == ensureUser(userMap, commit.user)
        i  == userIndex(m, commit.user)
        ts == weekTs(commit.date)
    IN [m EXCEPT ![i] =
         [@ EXCEPT
            !.commits = @ + 1,
            !.reposContributed = @ \cup {repoName},
            !.commitsList =
               IF Len(@) < CommitsListCap
               THEN Append(@, [sha |-> commit.sha, date |-> commit.date,
                               repo |-> repoName])
               ELSE @,
            !.weeklyData =
               [touchWeek(@, ts) EXCEPT ![ts].commits = @ + 1]]]

\* (mutant) the PR is dated by its creation
prDateCreated(pr) == pr.created_at

\* const prDate = pr.merged_at || pr.created_at
prDate(pr) == IF pr.merged_at # <<>> THEN pr.merged_at[1] ELSE pr.created_at

\* the PR passes "if (daysFilter && prDate) { if (ts < cutoff) return }"
prInWindow(pr, days, t) ==
  ~(days # 0 /\ prDate(pr) \div SecMs < cutoffTimestamp(days, t))

\* pr.merged_at && pr.additions !== undefined
prHasLineStats(pr) == pr.merged_at # <<>> /\ pr.additions # <<>>

\* one iteration of prs.forEach
processPR(userMap, pr, repoName, days, t) ==
  IF pr.user = "" THEN userMap
  ELSE IF ~prInWindow(pr, days, t) THEN userMap
  ELSE
    LET m  == ensureUser(userMap, pr.user)
        i  == userIndex(m, pr.user)
        ts == weekTs(prDate(pr))
        a  == IF prHasLineStats(pr) THEN pr.additions[1] ELSE 0
        d  == IF prHasLineStats(pr) THEN pr.deletions[1] ELSE 0
    IN [m EXCEPT ![i] =
         [@ EXCEPT
            !.pullRequests = @ + 1,
            !.reposContributed = @ \cup {repoName},
            !.prsList =
               IF Len(@) < PrsListCap
               THEN Append(@, [number |-> pr.number,
                               merged |-> pr.merged_at # <<>>,
                               date |-> prDate(pr), repo |-> repoName])
               ELSE @,
            !.additions = @ + a,
            !.deletions = @ + d,
            !.weeklyData =
               [touchWeek(@, ts) EXCEPT ![ts].pullRequests = @ + 1,
                                        ![ts].additions = @ + a,
                                        ![ts].deletions = @ + d]]]

\* reviewedPRs.forEach: push unless the list is full or holds the PR already
RECURSIVE addReviewedPRs(_, _, _, _)
addReviewedPRs(list, prs, k, repoName) ==
  IF k > Len(prs) THEN list
  ELSE
    LET has == \E j \in 1..Len(list) :
                 list[j].number = prs[k].number /\ list[j].repo = repoName
        nxt == IF Len(list) < ReviewsListCap /\ ~has
               THEN Append(list, [number |-> prs[k].number, repo |-> repoName])
               ELSE list
    IN IF nxt = list
       THEN addReviewedPRs(list, prs, k + 1, repoName)
       ELSE addReviewedPRs(nxt, prs, k + 1, repoName)

\* submittedDates.forEach: count and bucket each timestamp that passes
RECURSIVE countReviews(_, _, _, _, _)
countReviews(stats, dates, k, days, t) ==
  IF k > Len(dates) THEN stats
  ELSE IF days # 0 /\ dates[k] < cutoffMs(days, t)
  THEN countReviews(stats, dates, k + 1, days, t)
  ELSE
    LET ts == weekTs(dates[k])
        s  == [stats EXCEPT
                 !.reviews = @ + 1,
                 !.weeklyData =
                    [touchWeek(@, ts) EXCEPT ![ts].reviews = @ + 1]]
    IN IF s = stats
       THEN countReviews(stats, dates, k + 1, days, t)
       ELSE countReviews(s, dates, k + 1, days, t)

\* (mutant) the raw count is added whether the entry has timestamps or not
processReviewRawCount(userMap, entry, repoName, days, t) ==
  LET m  == ensureUser(userMap, entry.user)
      i  == userIndex(m, entry.user)
      s1 == [m[i] EXCEPT
               !.reviewsList = addReviewedPRs(@, entry.prs, 1, repoName),
               !.reviews = @ + entry.count]
      s3 == IF s1.reviews > 0
            THEN [s1 EXCEPT !.reposContributed = @ \cup {repoName}]
            ELSE s1
  IN [m EXCEPT ![i] = s3]

\* one iteration of Object.entries(reviews).forEach.  A legacy entry (a
\* bare number) is an entry with no timestamps and no PR references.
processReview(userMap, entry, repoName, days, t) ==
  LET m  == ensureUser(userMap, entry.user)
      i  == userIndex(m, entry.user)
      s1 == [m[i] EXCEPT
               !.reviewsList = addReviewedPRs(@, entry.prs, 1, repoName)]
      s2 == IF Len(entry.submitted_at) > 0
            THEN countReviews(s1, entry.submitted_at, 1, days, t)
            ELSE [s1 EXCEPT !.reviews = @ + entry.count]
      s3 == IF s2.reviews > 0
            THEN [s2 EXCEPT !.reposContributed = @ \cup {repoName}]
            ELSE s2
  IN [m EXCEPT ![i] = s3]

\* The forEach loops run one iteration after the other: each step's result
\* is compared (and so evaluated) before the next step is taken.
RECURSIVE foldCommits(_, _, _, _, _, _)
foldCommits(userMap, commits, k, repoName, days, t) ==
  IF k > Len(commits) THEN userMap
  ELSE LET after == processCommit(userMap, commits[k], repoName, days, t)
       IN IF after = <<>>
          THEN foldCommits(<<>>, commits, k + 1, repoName, days, t)
          ELSE foldCommits(after, commits, k + 1, repoName, days, t)

RECURSIVE foldPRs(_, _, _, _, _, _)
foldPRs(userMap, prs, k, repoName, days, t) ==
  IF k > Len(prs) THEN userMap
  ELSE LET after == processPR(userMap, prs[k], repoName, days, t)
       IN IF after = <<>>
          THEN foldPRs(<<>>, prs, k + 1, repoName, days, t)
          ELSE foldPRs(after, prs, k + 1, repoName, days, t)

RECURSIVE foldReviews(_, _, _, _, _, _)
foldReviews(userMap, reviews, k, repoName, days, t) ==
  IF k > Len(reviews) THEN userMap
  ELSE LET after == processReview(userMap, reviews[k], repoName, days, t)
       IN IF after = <<>>
          THEN foldReviews(<<>>, reviews, k + 1, repoName, days, t)
          ELSE foldReviews(after, reviews, k + 1, repoName, days, t)

\* one iteration of repoDataArray.forEach: commits, then prs, then reviews
processRepo(userMap, r, days, t) ==
  LET m1 == foldCommits(userMap, r.commits, 1, r.repoName, days, t)
      m2 == foldPRs(m1, r.prs, 1, r.repoName, days, t)
  IN foldReviews(m2, r.reviews, 1, r.repoName, days, t)

RECURSIVE foldRepos(_, _, _, _, _)
foldRepos(userMap, repos, k, days, t) ==
  IF k > Len(repos) THEN userMap
  ELSE LET after == processRepo(userMap, repos[k], days, t)
       IN IF after = <<>>
          THEN foldRepos(<<>>, repos, k + 1, days, t)
          ELSE foldRepos(after, repos, k + 1, days, t)

---------------------------------------------------------------------------
(* aggregateStats: emission of the result *)

\* (mutant) the filter is missing
hasActivityNoFilter(stats) == TRUE

\* the .filter() that keeps users with any activity
hasActivity(stats) ==
  stats.additions > 0 \/ stats.deletions > 0 \/ stats.commits > 0
    \/ stats.pullRequests > 0 \/ stats.reviews > 0

\* (mutant) net counts the changed lines
netOfSum(stats) == stats.additions + stats.deletions

\* net: stats.additions - stats.deletions
netOf(stats) == stats.additions - stats.deletions

\* the keys of weeklyData ascending: Object.entries(...).sort(a.week - b.week)
RECURSIVE sortedKeys(_)
sortedKeys(S) ==
  IF S = {} THEN <<>>
  ELSE LET lo == CHOOSE x \in S : \A y \in S : x <= y
       IN <<lo>> \o sortedKeys(S \ {lo})

\* weeklyArray.forEach(w => ...): re-normalise each key to its week boundary
\* and merge the entries that fall on the same boundary
RECURSIVE buildWeekMap(_, _, _, _)
buildWeekMap(weekMap, weeklyData, keys, k) ==
  IF k > Len(keys) THEN weekMap
  ELSE
    LET w   == weeklyData[keys[k]]
        nts == weekTs(keys[k] * SecMs)
        nxt == IF nts \notin DOMAIN weekMap
               THEN weekMap @@ (nts :> w)
               ELSE [weekMap EXCEPT
                       ![nts].commits = @ + w.commits,
                       ![nts].pullRequests = @ + w.pullRequests,
                       ![nts].reviews = @ + w.reviews,
                       ![nts].additions = @ + w.additions,
                       ![nts].deletions = @ + w.deletions]
    IN buildWeekMap(nxt, weeklyData, keys, k + 1)

\* the week of "now": endTs
endTs(t) == weekTs(t)

\* startTs = endTs - (maxWeeks - 1) * 7 * 24 * 60 * 60
startTs(days, t) == endTs(t) - (maxWeeks(days) - 1) * WeekSec

\* filledArray: one entry per week of the range, zero-filled
filledWeeks(weeklyData, days, t) ==
  LET weekMap == buildWeekMap(<<>>, weeklyData,
                              sortedKeys(DOMAIN weeklyData), 1)
  IN [i \in 1..maxWeeks(days) |->
        LET ts == startTs(days, t) + (i - 1) * WeekSec
        IN IF ts \in DOMAIN weekMap
           THEN [week |-> ts, additions |-> weekMap[ts].additions,
                 deletions |-> weekMap[ts].deletions,
                 commits |-> weekMap[ts].commits,
                 pullRequests |-> weekMap[ts].pullRequests,
                 reviews |-> weekMap[ts].reviews]
           ELSE [week |-> ts, additions |-> 0, deletions |-> 0,
                 commits |-> 0, pullRequests |-> 0, reviews |-> 0]]

\* list.sort((a, b) => new Date(b.date) - new Date(a.date)): stable, newest first
RECURSIVE insertByDate(_, _)
insertByDate(sorted, x) ==
  IF sorted = <<>> THEN <<x>>
  ELSE IF Head(sorted).date >= x.date
       THEN <<Head(sorted)>> \o insertByDate(Tail(sorted), x)
       ELSE <<x>> \o sorted

\* (mutant) the lists are returned in the order they were filled
sortByDateDescSkipped(sorted, list, k) == list

RECURSIVE sortByDateDesc(_, _, _)
sortByDateDesc(sorted, list, k) ==
  IF k > Len(list) THEN sorted
  ELSE sortByDateDesc(insertByDate(sorted, list[k]), list, k + 1)

\* the object literal of the .map(): one returned record
emit(stats, days, t) ==
  [user |-> stats.user,
   additions |-> stats.additions,
   deletions |-> stats.deletions,
   net |-> netOf(stats),
   commits |-> stats.commits,
   pullRequests |-> stats.pullRequests,
   reviews |-> stats.reviews,
   reposCount |-> Cardinality(stats.reposContributed),
   weeklyData |-> filledWeeks(stats.weeklyData, days, t),
   prsList |-> sortByDateDesc(<<>>, stats.prsList, 1),
   reviewsList |-> stats.reviewsList,
   commitsList |-> sortByDateDesc(<<>>, stats.commitsList, 1)]

RECURSIVE emitAll(_, _, _, _)
emitAll(userMap, k, days, t) ==
  IF k > Len(userMap) THEN <<>>
  ELSE IF hasActivity(userMap[k])
       THEN <<emit(userMap[k], days, t)>> \o emitAll(userMap, k + 1, days, t)
       ELSE emitAll(userMap, k + 1, days, t)

\* aggregateStats(repoDataArray, daysFilter) called at Date.now() = t
aggregateStats(repos, days, t) ==
  emitAll(foldRepos(<<>>, repos, 1, days, t), 1, days, t)

\* (mutant) the commit list that is sorted in place is the argument's own
inputAfterAggregateSorted(repos) ==
  [k \in 1..Len(repos) |->
     [repos[k] EXCEPT !.commits = sortByDateDesc(<<>>, @, 1)]]

\* what a call of aggregateStats leaves in its argument: it reads the input
\* records and pushes fresh object literals, and the two in-place sorts act
\* on lists it built itself, so the argument is left as it was
inputAfterAggregate(repos) == repos

---------------------------------------------------------------------------
(* The response cache over localStorage *)

CACHE_PREFIX == "github_leaderboard_cache_"
CACHE_EXPIRY_MS == 30 * 60 * 1000

\* (mutant) the size limit takes a KB for 1000 characters
maxItemCharsDecimal == 500 * 1000

\* the limit of "serialized.length > 500 * 1024"
maxItemChars == 500 * 1024

\* key.startsWith(prefix)
startsWith(key, prefix) ==
  Len(key) >= Len(prefix) /\ SubSeq(key, 1, Len(prefix)) = prefix

\* A payload is [id, undefinedProps, bytes]: which value it is, how many of
\* its properties hold undefined, and the length of JSON.stringify of it.
\* JSON.stringify leaves out the properties that hold undefined, so the
\* text parses back to the payload without them.
jsonImage(data) == [data EXCEPT !.undefinedProps = 0]

\* the characters of {"data":  ,"timestamp":  13 digits  }
jsonWrapperChars == 8 + 13 + 13 + 1

\* JSON.stringify({ data, timestamp: Date.now() }), as what it parses to
serialize(data, t) == [data |-> jsonImage(data), timestamp |-> t]

\* serialized.length
serializedLength(data) == data.bytes + jsonWrapperChars

\* localStorage.setItem / removeItem
setItem(ls, k, v) == [x \in DOMAIN ls \cup {k} |-> IF x = k THEN v ELSE ls[x]]

removeItem(ls, k) == [x \in DOMAIN ls \ {k} |-> ls[x]]

\* Date.now() - timestamp > CACHE_EXPIRY_MS
cacheExpired(entry, t) == t - entry.timestamp > CACHE_EXPIRY_MS

\* getFromCache(key): the value returned (<<>> is null) ...
getFromCacheResult(ls, key, t) ==
  LET k == CACHE_PREFIX \o key
  IN IF k \notin DOMAIN ls THEN <<>>
     ELSE IF cacheExpired(ls[k], t) THEN <<>>
     ELSE <<ls[k].data>>

\* ... and the store it leaves
getFromCacheStore(ls, key, t) ==
  LET k == CACHE_PREFIX \o key
  IN IF k \in DOMAIN ls /\ cacheExpired(ls[k], t) THEN removeItem(ls, k) ELSE ls

\* clearOldCache(): remove the expired entries of the namespace
clearOldCache(ls, t) ==
  LET old == {k \in DOMAIN ls :
                startsWith(k, CACHE_PREFIX) /\ cacheExpired(ls[k], t)}
  IN [x \in DOMAIN ls \ old |-> ls[x]]

\* clearCache(): remove every entry of the namespace
clearCache(ls) ==
  LET ours == {k \in DOMAIN ls : startsWith(k, CACHE_PREFIX)}
  IN [x \in DOMAIN ls \ ours |-> ls[x]]

\* what the two localStorage.setItem attempts of one saveToCache can do: the
\* first succeeds, throws QuotaExceededError or throws something else; the
\* retry after a quota failure succeeds or throws
SetItemOutcomes ==
  {<<"ok", "ok">>, <<"other", "ok">>, <<"quota", "ok">>, <<"quota", "fail">>}

\* how often one saveToCache calls localStorage.setItem
setItemCalls(data, outcome) ==
  IF serializedLength(data) > maxItemChars THEN 0
  ELSE IF outcome[1] = "quota" THEN 2 ELSE 1

\* how one saveToCache ends: every path returns; an exception of setItem is
\* caught by the inner handlers, anything else by the outer one
saveToCacheEnd(data, outcome) ==
  IF serializedLength(data) > maxItemChars THEN "skipped"
  ELSE IF outcome[1] = "ok" THEN "stored"
  ELSE IF outcome[1] = "quota"
       THEN IF outcome[2] = "ok" THEN "stored after purge" ELSE "cleared"
       ELSE "ignored"

\* (mutant) a failed retry leaves the unexpired entries in place
saveToCacheStoreNoClear(ls, key, data, t, outcome) ==
  LET k   == CACHE_PREFIX \o key
      ser == serialize(data, t)
  IN IF serializedLength(data) > maxItemChars THEN ls
     ELSE IF outcome[1] = "ok" THEN setItem(ls, k, ser)
     ELSE IF outcome[1] = "quota"
          THEN IF outcome[2] = "ok"
               THEN setItem(clearOldCache(ls, t), k, ser)
               ELSE clearOldCache(ls, t)
          ELSE ls

\* (mutant) a payload over the limit drops the entry stored under its key
saveToCacheStoreDropsOversize(ls, key, data, t, outcome) ==
  LET k   == CACHE_PREFIX \o key
      ser == serialize(data, t)
  IN IF serializedLength(data) > maxItemChars THEN removeItem(ls, k)
     ELSE IF outcome[1] = "ok" THEN setItem(ls, k, ser)
     ELSE IF outcome[1] = "quota"
          THEN IF outcome[2] = "ok"
               THEN setItem(clearOldCache(ls, t), k, ser)
               ELSE clearCache(clearOldCache(ls, t))
          ELSE ls

\* saveToCache(key, data) at Date.now() = t: the store it leaves
saveToCacheStore(ls, key, data, t, outcome) ==
  LET k   == CACHE_PREFIX \o key
      ser == serialize(data, t)
  IN IF serializedLength(data) > maxItemChars THEN ls
     ELSE IF outcome[1] = "ok" THEN setItem(ls, k, ser)
     ELSE IF outcome[1] = "quota"
          THEN IF outcome[2] = "ok"
               THEN setItem(clearOldCache(ls, t), k, ser)
               ELSE clearCache(clearOldCache(ls, t))
          ELSE ls

\* the cache is not in use
CacheIdle ==
  /\ localStorage = <<>>
  /\ cacheTicks = 0
  /\ cacheSaved = <<>>
  /\ cacheGot = <<>>

---------------------------------------------------------------------------
(* fetchStats and its fallback fetchCommitsAsStats *)

DefaultRetries == 3
RetryDelayMs == 1500
PerPage == 100
FallbackMaxPages == 3
FallbackDetailCap == 50

statsCacheKey(org, repoName) == "stats_v2_" \o org \o "_" \o repoName

commitStatsCacheKey(org, repoName) ==
  "commits_stats_v2_" \o org \o "_" \o repoName

\* no cache key has been used
KeyIdle == keyGot = <<>>

\* fetchRepos has not been called
FrIdle ==
  /\ frPc = "idle"
  /\ frCalls = 0
  /\ frListing = 0
  /\ frPage = 1
  /\ frRequests = 0
  /\ frCount = 0
  /\ frLast = <<>>
  /\ frError = <<>>
  /\ frResult = <<>>

\* the App is not mounted
AppIdle ==
  /\ token = ""
  /\ loadingStats = FALSE
  /\ renderedLoading = FALSE
  /\ autoRefreshRef = FALSE
  /\ autoRefreshEnabled = TRUE
  /\ leaderboardShown = FALSE
  /\ hasSelection = FALSE
  /\ activeRuns = 0
  /\ pageLoads = 0
  /\ error = ""

\* fetchAllStats is not running
RunIdle ==
  /\ runPc = "idle"
  /\ runRepos = <<>>
  /\ runIdx = 0
  /\ sinceDate = <<>>
  /\ runCommits = <<>>
  /\ runPrs = <<>>
  /\ runReviews = <<>>
  /\ runPage = 0
  /\ runCursor = 0
  /\ events = <<>>
  /\ progress = <<>>
  /\ snapshots = <<>>
  /\ runResult = <<>>
  /\ storageFull = FALSE
  /\ refused = {}

\* fetchStats and fetchCommitsAsStats are not running
FsIdle ==
  /\ fsPc = "idle"
  /\ fsRetries = 0
  /\ fsRequests = 0
  /\ fsAll202 = TRUE
  /\ fsPage = 0
  /\ fsCommits = 0
  /\ fsPageReqs = 0
  /\ fsDetail = 0
  /\ fsDetailOk = 0
  /\ fsFallback = <<>>
  /\ fsResult = <<>>

\* The stats a call returns are a payload of the cache.  The contributor
\* array of the endpoint is one value; the commit-derived array is
\* determined by the commits collected and the details fetched for them.
endpointStats ==
  [kind |-> "stats", commits |-> 0, detailed |-> 0, undefinedProps |-> 0,
   bytes |-> 400]

\* the array fetchCommitsAsStats builds from its commits and their details
commitDerivedStats(nCommits, nDetailed) ==
  [kind |-> "commits", commits |-> nCommits, detailed |-> nDetailed,
   undefinedProps |-> 0, bytes |-> 2 + 60 * nCommits]

\* return [] for 204
emptyStats ==
  [kind |-> "empty", commits |-> 0, detailed |-> 0, undefinedProps |-> 0,
   bytes |-> 2]

\* (mutant) the test of the retry budget is "retries >= 0"
mayRetryInclusive(retries) == retries >= 0

\* if (retries > 0)
mayRetry(retries) == retries > 0

\* commits.slice(0, 50).length
detailsWanted(nCommits) ==
  IF nCommits < FallbackDetailCap THEN nCommits ELSE FallbackDetailCap

---------------------------------------------------------------------------
(* Calls of aggregateStats on per-repository inputs built item by item *)

RepoNames == <<"repoA", "repoB">>

HourMs == 60 * 60 * 1000

\* a Wednesday 03:00:00.000 in the second week after the origin, and the
\* same instant half a second later
NowChoices == {10 * DayMs + 3 * HourMs, 10 * DayMs + 3 * HourMs + 500}

\* all time, 7 days (one week bucket) and 8 days (two week buckets)
DaysChoices == {0, 7, 8}

EmptyRepo(name) ==
  [repoName |-> name, commits |-> <<>>, prs |-> <<>>, reviews |-> <<>>]

\* the window the dates of the inputs are placed around
refCutoffMs == now - (IF daysFilter = 0 THEN 8 ELSE daysFilter) * DayMs

CommitDates == {refCutoffMs - 1, refCutoffMs, now - HourMs}

itemCount(repos) ==
  LET n(r) == Len(r.commits) + Len(r.prs) + Len(r.reviews)
      RECURSIVE sum(_)
      sum(k) == IF k = 0 THEN 0 ELSE n(repos[k]) + sum(k - 1)
  IN sum(Len(repos))

InitAggregate ==
  /\ now \in NowChoices
  /\ daysFilter \in DaysChoices
  /\ repoDataArray = <<EmptyRepo(RepoNames[1])>>
  /\ aggPc = "build"
  /\ nowAtCall = <<>>
  /\ inputAtCall = <<>>
  /\ aggResult = <<>>
  /\ CacheIdle
  /\ FsIdle
  /\ RunIdle
  /\ AppIdle
  /\ FrIdle
  /\ KeyIdle

CanAdd == aggPc = "build" /\ itemCount(repoDataArray) < MaxItems

\* the next repository's record is started
AddRepo ==
  /\ aggPc = "build"
  /\ Len(repoDataArray) < Len(RepoNames)
  /\ repoDataArray' =
       Append(repoDataArray, EmptyRepo(RepoNames[Len(repoDataArray) + 1]))
  /\ UNCHANGED <<now, daysFilter, aggPc, nowAtCall, inputAtCall, aggResult,
                 cacheVars, fsVars, runVars, appVars, frVars, keyVars>>

\* a commit as fetchCommits returns it
AddCommit ==
  /\ CanAdd
  /\ \E u \in {"alice", "bob"}, d \in CommitDates :
       LET n == Len(repoDataArray)
           c == [sha |-> itemCount(repoDataArray) + 1, user |-> u, date |-> d]
       IN repoDataArray' =
            [repoDataArray EXCEPT ![n].commits = Append(@, c)]
  /\ UNCHANGED <<now, daysFilter, aggPc, nowAtCall, inputAtCall, aggResult,
                 cacheVars, fsVars, runVars, appVars, frVars, keyVars>>

\* a pull request as fetchPullRequests returns it: merged and enriched,
\* merged without enrichment, open, or without an author
PRChoices(num) ==
  { [number |-> num, user |-> "bob", created_at |-> now - 2 * HourMs,
     merged_at |-> <<now - HourMs>>, additions |-> <<10>>, deletions |-> <<2>>],
    [number |-> num, user |-> "bob", created_at |-> refCutoffMs - HourMs,
     merged_at |-> <<refCutoffMs - SecMs>>, additions |-> <<3>>,
     deletions |-> <<7>>],
    [number |-> num, user |-> "alice", created_at |-> now - HourMs,
     merged_at |-> <<>>, additions |-> <<>>, deletions |-> <<>>],
    [number |-> num, user |-> "", created_at |-> now - 2 * HourMs,
     merged_at |-> <<now - HourMs>>, additions |-> <<>>, deletions |-> <<>>] }

AddPR ==
  /\ CanAdd
  /\ LET n == Len(repoDataArray)
     IN \E pr \in PRChoices(Len(repoDataArray[n].prs) + 1) :
          repoDataArray' = [repoDataArray EXCEPT ![n].prs = Append(@, pr)]
  /\ UNCHANGED <<now, daysFilter, aggPc, nowAtCall, inputAtCall, aggResult,
                 cacheVars, fsVars, runVars, appVars, frVars, keyVars>>

\* one login's entry of the review map: timestamps inside the window,
\* timestamps before it, or a bare count (legacy shape)
ReviewChoices ==
  { [user |-> "carol", count |-> 1, submitted_at |-> <<now - HourMs>>,
     prs |-> <<[number |-> 1]>>],
    [user |-> "carol", count |-> 1, submitted_at |-> <<refCutoffMs - 1>>,
     prs |-> <<[number |-> 1]>>],
    [user |-> "alice", count |-> 2, submitted_at |-> <<>>, prs |-> <<>>] }

AddReview ==
  /\ CanAdd
  /\ LET n == Len(repoDataArray)
     IN \E e \in ReviewChoices :
          /\ \A j \in 1..Len(repoDataArray[n].reviews) :
               repoDataArray[n].reviews[j].user # e.user
          /\ repoDataArray' =
               [repoDataArray EXCEPT ![n].reviews = Append(@, e)]
  /\ UNCHANGED <<now, daysFilter, aggPc, nowAtCall, inputAtCall, aggResult,
                 cacheVars, fsVars, runVars, appVars, frVars, keyVars>>

\* the clock moves on between the two calls
TickMs == SecMs \div 2

AggTick ==
  /\ aggPc = "once"
  /\ now = nowAtCall[1]
  /\ now' = now + TickMs
  /\ UNCHANGED <<daysFilter, repoDataArray, aggPc, nowAtCall, inputAtCall, aggResult,
               cacheVars, fsVars, runVars, appVars, frVars, keyVars>>

\* aggregateStats(repoDataArray, daysFilter), a first and a second time
CallAggregate ==
  /\ aggPc \in {"build", "once"}
  /\ aggResult' = Append(aggResult, aggregateStats(repoDataArray, daysFilter, now))
  /\ nowAtCall' = Append(nowAtCall, now)
  /\ inputAtCall' = Append(inputAtCall, repoDataArray)
  /\ repoDataArray' = inputAfterAggregate(repoDataArray)
  /\ aggPc' = IF aggPc = "build" THEN "once" ELSE "twice"
  /\ UNCHANGED <<now, daysFilter, cacheVars, fsVars, runVars, appVars, frVars, keyVars>>

NextAggregate ==
  \/ AddRepo
  \/ AddCommit
  \/ AddPR
  \/ AddReview
  \/ AggTick
  \/ CallAggregate

SpecAggregate == InitAggregate /\ [][NextAggregate]_vars

---------------------------------------------------------------------------
(* Calls of aggregateStats on inputs whose lists are longer than the caps  *)
(* of the per-contributor lists                                            *)

MinuteMs == 60 * 1000

\* n commits of one login as fetchCommits returns them: newest first, a
\* minute apart
commitBatch(u, n, firstSha, newest) ==
  [j \in 1..n |->
     [sha |-> firstSha + j - 1, user |-> u,
      date |-> newest - (j - 1) * MinuteMs]]

\* n open pull requests of one login, newest first, a minute apart
prBatch(u, n, newest) ==
  [j \in 1..n |->
     [number |-> j, user |-> u, created_at |-> newest - (j - 1) * MinuteMs,
      merged_at |-> <<>>, additions |-> <<>>, deletions |-> <<>>]]

\* one login's entry of the review map after n reviews on n pull requests,
\* newest first, a minute apart
reviewBatch(u, n, newest) ==
  [user |-> u, count |-> n,
   submitted_at |-> [j \in 1..n |-> newest - (j - 1) * MinuteMs],
   prs |-> [j \in 1..n |-> [number |-> j]]]

\* one login's entry after n reviews that carry no submitted_at
untimedReviews(u, n) ==
  [user |-> u, count |-> n, submitted_at |-> <<>>, prs |-> <<[number |-> 1]>>]

\* a single item, a list as long as the cap, and a list one longer; the
\* newest item an hour old or two days old
BatchChoices ==
  { [n |-> 1, age |-> HourMs], [n |-> 1, age |-> 2 * DayMs],
    [n |-> CommitsListCap, age |-> 2 * DayMs],
    [n |-> CommitsListCap + 1, age |-> HourMs] }

\* the review map of a repository: 20 or 21 reviews of the last hour, or 21
\* reviews of which the three newest lie at or after the start of a 7-day
\* window, next to a reviewer whose reviews carry no timestamp
ReviewMapChoices ==
  { <<reviewBatch("carol", ReviewsListCap, now - HourMs)>>,
    <<reviewBatch("carol", ReviewsListCap + 1, now - HourMs)>>,
    <<reviewBatch("carol", ReviewsListCap + 1,
                  now - 7 * DayMs + 2 * MinuteMs),
      untimedReviews("dave", 3)>> }

InitLists ==
  /\ now = 10 * DayMs + 3 * HourMs
  /\ daysFilter \in {0, 7}
  /\ repoDataArray = <<EmptyRepo(RepoNames[1])>>
  /\ aggPc = "build"
  /\ nowAtCall = <<>>
  /\ inputAtCall = <<>>
  /\ aggResult = <<>>
  /\ CacheIdle
  /\ FsIdle
  /\ RunIdle
  /\ AppIdle
  /\ FrIdle
  /\ KeyIdle

\* the commits of the repository record being built
SetCommits ==
  /\ aggPc = "build"
  /\ LET n == Len(repoDataArray)
     IN /\ repoDataArray[n].commits = <<>>
        /\ \E b \in BatchChoices :
             repoDataArray' =
               [repoDataArray EXCEPT ![n].commits =
                  commitBatch("alice", b.n, 100 * n + 1, now - b.age)]
  /\ UNCHANGED <<now, daysFilter, aggPc, nowAtCall, inputAtCall, aggResult,
                 cacheVars, fsVars, runVars, appVars, frVars, keyVars>>

\* the pull requests of the repository record being built
SetPRs ==
  /\ aggPc = "build"
  /\ LET n == Len(repoDataArray)
     IN /\ repoDataArray[n].prs = <<>>
        /\ \E b \in BatchChoices :
             repoDataArray' =
               [repoDataArray EXCEPT ![n].prs =
                  prBatch("alice", b.n, now - b.age)]
  /\ UNCHANGED <<now, daysFilter, aggPc, nowAtCall, inputAtCall, aggResult,
                 cacheVars, fsVars, runVars, appVars, frVars, keyVars>>

\* the review map of the repository record being built
SetReviews ==
  /\ aggPc = "build"
  /\ LET n == Len(repoDataArray)
     IN /\ repoDataArray[n].reviews = <<>>
        /\ \E reviews \in ReviewMapChoices :
             repoDataArray' = [repoDataArray EXCEPT ![n].reviews = reviews]
  /\ UNCHANGED <<now, daysFilter, aggPc, nowAtCall, inputAtCall, aggResult,
                 cacheVars, fsVars, runVars, appVars, frVars, keyVars>>

\* aggregateStats(repoDataArray, daysFilter), once
CallOnLists ==
  /\ aggPc = "build"
  /\ CallAggregate

NextLists ==
  \/ AddRepo
  \/ SetCommits
  \/ SetPRs
  \/ SetReviews
  \/ CallOnLists

SpecLists == InitLists /\ [][NextLists]_vars

---------------------------------------------------------------------------
(* The cache used on its own: saves, reads, clears and the passing of time *)

CacheKeys == {"repos_acme", "prs_v3_acme_web"}

\* a small payload, a small payload with a property holding undefined, a
\* payload whose text is exactly at the size limit, and one over it
CachePayloads ==
  { [id |-> 1, undefinedProps |-> 0, bytes |-> 120],
    [id |-> 2, undefinedProps |-> 1, bytes |-> 120],
    [id |-> 3, undefinedProps |-> 0, bytes |-> 500 * 1024 - jsonWrapperChars],
    [id |-> 4, undefinedProps |-> 0, bytes |-> 500 * 1024 - jsonWrapperChars + 1] }

AggIdle ==
  /\ daysFilter = 0
  /\ repoDataArray = <<>>
  /\ aggPc = "idle"
  /\ nowAtCall = <<>>
  /\ inputAtCall = <<>>
  /\ aggResult = <<>>

InitCache ==
  /\ now = 10 * DayMs
  /\ localStorage = <<>>
  /\ cacheTicks = 0
  /\ cacheSaved = <<>>
  /\ cacheGot = <<>>
  /\ AggIdle
  /\ FsIdle
  /\ RunIdle
  /\ AppIdle
  /\ FrIdle
  /\ KeyIdle

\* saveToCache(key, data)
CacheSave ==
  /\ \E key \in CacheKeys, data \in CachePayloads, o \in SetItemOutcomes :
       /\ localStorage' = saveToCacheStore(localStorage, key, data, now, o)
       /\ cacheSaved' = <<[key |-> key, data |-> data, outcome |-> o,
                           before |-> localStorage,
                           setItemCalls |-> setItemCalls(data, o),
                           end |-> saveToCacheEnd(data, o)]>>
  /\ cacheGot' = <<>>
  /\ UNCHANGED <<now, cacheTicks, aggVars, fsVars, runVars, appVars, frVars, keyVars>>

\* getFromCache(key)
CacheGet ==
  /\ \E key \in CacheKeys :
       /\ localStorage' = getFromCacheStore(localStorage, key, now)
       /\ cacheGot' =
            <<[key |-> key,
               result |-> getFromCacheResult(localStorage, key, now),
               afterSave |-> cacheSaved,
               age |-> IF CACHE_PREFIX \o key \in DOMAIN localStorage
                       THEN <<now - localStorage[CACHE_PREFIX \o key].timestamp>>
                       ELSE <<>>]>>
  /\ cacheSaved' = <<>>
  /\ UNCHANGED <<now, cacheTicks, aggVars, fsVars, runVars, appVars, frVars, keyVars>>

\* clearCache()
CacheClear ==
  /\ localStorage # <<>>
  /\ localStorage' = clearCache(localStorage)
  /\ cacheSaved' = <<>>
  /\ cacheGot' = <<>>
  /\ UNCHANGED <<now, cacheTicks, aggVars, fsVars, runVars, appVars, frVars, keyVars>>

\* time passes: a millisecond, or the length of the TTL
CacheTick ==
  /\ cacheTicks < MaxTicks
  /\ \E d \in {1, CACHE_EXPIRY_MS} : now' = now + d
  /\ cacheTicks' = cacheTicks + 1
  /\ cacheSaved' = <<>>
  /\ cacheGot' = <<>>
  /\ UNCHANGED <<localStorage, aggVars, fsVars, runVars, appVars, frVars, keyVars>>

NextCache ==
  \/ CacheSave
  \/ CacheGet
  \/ CacheClear
  \/ CacheTick

SpecCache == InitCache /\ [][NextCache]_vars

---------------------------------------------------------------------------
(* One call of fetchStats(token, "acme", "web") *)

FsOrg == "acme"

FsRepo == "web"

\* the cache at the time of the call: empty, or holding a fresh entry of an
\* earlier call under one of the two keys
FsInitialStores ==
  { <<>>,
    (CACHE_PREFIX \o statsCacheKey(FsOrg, FsRepo)) :>
       serialize(endpointStats, 10 * DayMs - 1000),
    (CACHE_PREFIX \o commitStatsCacheKey(FsOrg, FsRepo)) :>
       serialize(commitDerivedStats(40, 40), 10 * DayMs - 1000) }

InitFetchStats ==
  /\ now = 10 * DayMs
  /\ localStorage \in FsInitialStores
  /\ cacheTicks = 0
  /\ cacheSaved = <<>>
  /\ cacheGot = <<>>
  /\ AggIdle
  /\ RunIdle
  /\ AppIdle
  /\ FrIdle
  /\ KeyIdle
  /\ fsPc = "enter"
  /\ fsRetries = DefaultRetries
  /\ fsRequests = 0
  /\ fsAll202 = TRUE
  /\ fsPage = 0
  /\ fsCommits = 0
  /\ fsPageReqs = 0
  /\ fsDetail = 0
  /\ fsDetailOk = 0
  /\ fsFallback = <<>>
  /\ fsResult = <<>>

fsCacheFrame == UNCHANGED <<cacheTicks, cacheSaved, cacheGot>>

\* entry of fetchStats (first call and each recursive call): the cache is
\* read, and on a miss the request to stats/contributors is sent
FsEnter ==
  /\ fsPc = "enter"
  /\ LET cached == getFromCacheResult(localStorage, statsCacheKey(FsOrg, FsRepo), now)
     IN /\ localStorage' =
             getFromCacheStore(localStorage, statsCacheKey(FsOrg, FsRepo), now)
        /\ IF cached # <<>>
           THEN /\ fsResult' = cached
                /\ fsPc' = "done"
                /\ UNCHANGED fsRequests
           ELSE /\ fsRequests' = fsRequests + 1
                /\ fsPc' = "awaiting"
                /\ UNCHANGED fsResult
  /\ fsCacheFrame
  /\ UNCHANGED <<now, aggVars, runVars, appVars, frVars, keyVars, fsRetries, fsAll202, fsPage, fsCommits,
                 fsPageReqs, fsDetail, fsDetailOk, fsFallback>>

\* what can come back: a status with a body, or the request / the parsing
\* of the body failing
StatsResponses ==
  {"202", "204", "200 data", "200 empty", "200 bad json", "403 rate limit",
   "403", "500", "network error"}

\* the answer of stats/contributors arrives
FsResponse ==
  /\ fsPc = "awaiting"
  /\ \E r \in StatsResponses, o \in SetItemOutcomes :
       /\ fsAll202' = (fsAll202 /\ r = "202")
       /\ CASE r = "202" ->
                 /\ fsPc' = IF mayRetry(fsRetries) THEN "waiting" ELSE "fb_enter"
                 /\ UNCHANGED <<fsResult, localStorage>>
            [] r = "204" ->
                 /\ fsPc' = "done"
                 /\ fsResult' = <<emptyStats>>
                 /\ UNCHANGED localStorage
            [] r \in {"403 rate limit", "network error", "200 bad json"} ->
                 /\ fsPc' = "threw"
                 /\ UNCHANGED <<fsResult, localStorage>>
            [] r \in {"403", "500", "200 empty"} ->
                 /\ fsPc' = "fb_enter"
                 /\ UNCHANGED <<fsResult, localStorage>>
            [] r = "200 data" ->
                 /\ fsPc' = "done"
                 /\ fsResult' = <<endpointStats>>
                 /\ localStorage' =
                      saveToCacheStore(localStorage, statsCacheKey(FsOrg, FsRepo),
                                       endpointStats, now, o)
  /\ fsCacheFrame
  /\ UNCHANGED <<now, aggVars, runVars, appVars, frVars, keyVars, fsRetries, fsRequests, fsPage, fsCommits,
                 fsPageReqs, fsDetail, fsDetailOk, fsFallback>>

\* the 1.5 s timer fires: return fetchStats(token, org, repoName, retries - 1)
FsTimer ==
  /\ fsPc = "waiting"
  /\ now' = now + RetryDelayMs
  /\ fsRetries' = fsRetries - 1
  /\ fsPc' = "enter"
  /\ fsCacheFrame
  /\ UNCHANGED <<localStorage, aggVars, runVars, appVars, frVars, keyVars, fsRequests, fsAll202, fsPage,
                 fsCommits, fsPageReqs, fsDetail, fsDetailOk, fsFallback,
                 fsResult>>

\* entry of fetchCommitsAsStats: the cache is read, and on a miss the first
\* page of commits is requested
FbEnter ==
  /\ fsPc = "fb_enter"
  /\ LET key    == commitStatsCacheKey(FsOrg, FsRepo)
         cached == getFromCacheResult(localStorage, key, now)
     IN /\ localStorage' = getFromCacheStore(localStorage, key, now)
        /\ IF cached # <<>>
           THEN /\ fsFallback' = cached
                /\ fsResult' = cached
                /\ fsPc' = "done"
                /\ UNCHANGED <<fsPage, fsPageReqs>>
           ELSE /\ fsPage' = 1
                /\ fsPageReqs' = fsPageReqs + 1
                /\ fsPc' = "fb_page"
                /\ UNCHANGED <<fsFallback, fsResult>>
  /\ fsCacheFrame
  /\ UNCHANGED <<now, aggVars, runVars, appVars, frVars, keyVars, fsRetries, fsRequests, fsAll202, fsCommits,
                 fsDetail, fsDetailOk>>

\* after the page loop: the first detail request, or straight to the end
afterPages(nCommits) ==
  IF detailsWanted(nCommits) > 0
  THEN /\ fsDetail' = 1
       /\ fsPc' = "fb_detail"
  ELSE /\ fsDetail' = 0
       /\ fsPc' = "fb_finish"

\* a page of the commit listing arrives (or the request fails)
FbPageResponse ==
  /\ fsPc = "fb_page"
  /\ \E r \in {"ok", "not ok", "network error"}, len \in {0, 40, PerPage} :
       IF r # "ok" \/ len = 0
       THEN /\ afterPages(fsCommits)
            /\ UNCHANGED <<fsCommits, fsPage, fsPageReqs>>
       ELSE /\ fsCommits' = fsCommits + len
            /\ IF len < PerPage
               THEN /\ afterPages(fsCommits + len)
                    /\ UNCHANGED <<fsPage, fsPageReqs>>
               ELSE /\ fsPage' = fsPage + 1
                    /\ IF fsPage + 1 <= FallbackMaxPages
                       THEN /\ fsPageReqs' = fsPageReqs + 1
                            /\ fsPc' = "fb_page"
                            /\ UNCHANGED fsDetail
                       ELSE /\ afterPages(fsCommits + len)
                            /\ UNCHANGED fsPageReqs
  /\ fsCacheFrame
  /\ UNCHANGED <<now, localStorage, aggVars, runVars, appVars, frVars, keyVars, fsRetries, fsRequests, fsAll202,
                 fsDetailOk, fsFallback, fsResult>>

\* the detail of one commit arrives (with line stats, or not)
FbDetailResponse ==
  /\ fsPc = "fb_detail"
  /\ \E ok \in BOOLEAN :
       fsDetailOk' = IF ok THEN fsDetailOk + 1 ELSE fsDetailOk
  /\ IF fsDetail < detailsWanted(fsCommits)
     THEN /\ fsDetail' = fsDetail + 1
          /\ fsPc' = "fb_detail"
     ELSE /\ fsPc' = "fb_finish"
          /\ UNCHANGED fsDetail
  /\ fsCacheFrame
  /\ UNCHANGED <<now, localStorage, aggVars, runVars, appVars, frVars, keyVars, fsRetries, fsRequests, fsAll202,
                 fsPage, fsCommits, fsPageReqs, fsFallback, fsResult>>

\* the commits are bucketed by author and week, cached and returned
FbFinish ==
  /\ fsPc = "fb_finish"
  /\ \E o \in SetItemOutcomes :
       localStorage' =
         saveToCacheStore(localStorage, commitStatsCacheKey(FsOrg, FsRepo),
                          commitDerivedStats(fsCommits, fsDetailOk), now, o)
  /\ fsFallback' = <<commitDerivedStats(fsCommits, fsDetailOk)>>
  /\ fsResult' = fsFallback'
  /\ fsPc' = "done"
  /\ fsCacheFrame
  /\ UNCHANGED <<now, aggVars, runVars, appVars, frVars, keyVars, fsRetries, fsRequests, fsAll202, fsPage,
                 fsCommits, fsPageReqs, fsDetail, fsDetailOk>>

NextFetchStats ==
  \/ FsEnter
  \/ FsResponse
  \/ FsTimer
  \/ FbEnter
  \/ FbPageResponse
  \/ FbDetailResponse
  \/ FbFinish

SpecFetchStats == InitFetchStats /\ [][NextFetchStats]_vars

---------------------------------------------------------------------------
(* fetchCommits, fetchPullRequests, fetchReviews: keys, pages, records *)

PageCap == 10
MergedDetailCap == 30
ReviewPRCap == 50

\* characters one collected record takes in the serialized cache entry
RecordChars == 250

Min(a, b) == IF a < b THEN a ELSE b

\* sinceDate.slice(0, 10): the calendar day of the instant (the zone of
\* the origin is taken to be UTC)
isoDay(ms) == "day" \o ToString(ms \div DayMs)

sinceSuffix(since) ==
  IF since # <<>> THEN "_since_" \o isoDay(since[1]) ELSE ""

commitsCacheKey(org, repoName, defaultBranch, since) ==
  "commits_v4_" \o org \o "_" \o repoName \o "_" \o defaultBranch
    \o sinceSuffix(since)

prsCacheKey(org, repoName, since) ==
  "prs_v3_" \o org \o "_" \o repoName \o sinceSuffix(since)

reviewsCacheKey(org, repoName, since) ==
  "reviews_" \o org \o "_" \o repoName \o sinceSuffix(since)

\* (mutant) the loop runs while page <= maxPages + 1
withinMaxPagesOneMore(p, since) == since = <<>> \/ p <= PageCap + 1

\* page <= maxPages, with maxPages = sinceDate ? 10 : Infinity
withinMaxPages(p, since) == since = <<>> \/ p <= PageCap

\* a collected list (or map) as a payload of the cache
cachePayload(value) ==
  [value |-> value, undefinedProps |-> 0,
   bytes |-> 2 + Len(value) * RecordChars]

\* page p of a listing as the API serves it: empty past the last page
servedPage(pages, p) ==
  IF p <= Len(pages) THEN pages[p] ELSE [len |-> 0, items |-> <<>>]

\* data.forEach(commit => { if (commit.author?.login) commits.push(...) })
attributedCommits(items) ==
  LET keep(c) == c.user # ""
  IN SelectSeq(items, keep)

\* (mutant) the date filter looks at the last update only
prFilterDateUpdated(pr) == pr.updated_at

\* new Date(pr.merged_at || pr.closed_at || pr.updated_at).getTime()
prFilterDate(pr) ==
  IF pr.merged_at # <<>> THEN pr.merged_at[1]
  ELSE IF pr.closed_at # <<>> THEN pr.closed_at[1]
  ELSE pr.updated_at

\* filteredPRs: the PRs of the page that are not older than sinceDate
filterPRs(items, since) ==
  LET keep(pr) == prFilterDate(pr) >= since[1]
  IN IF since = <<>> THEN items ELSE SelectSeq(items, keep)

\* the record pushed for a PR of the listing: no line stats yet
basicPR(pr) ==
  [number |-> pr.number, user |-> pr.user, created_at |-> pr.created_at,
   merged_at |-> pr.merged_at, additions |-> <<>>, deletions |-> <<>>]

basicPRs(items) == [k \in 1..Len(items) |-> basicPR(items[k])]

\* prs.filter(pr => pr.merged_at).slice(0, 30), as positions in prs
mergedPositions(list) ==
  LET merged(k) == list[k].merged_at # <<>>
      all == SelectSeq([k \in 1..Len(list) |-> k], merged)
  IN SubSeq(all, 1, Min(Len(all), MergedDetailCap))

\* pr.additions = details.additions || 0; pr.deletions = ...
enrichPR(list, k, details) ==
  [list EXCEPT ![k].additions = <<details.additions>>,
               ![k].deletions = <<details.deletions>>]

\* pullRequests.slice(0, 50)
prsToCheck(list) == SubSeq(list, 1, Min(Len(list), ReviewPRCap))

reviewerIndex(reviewData, u) ==
  IF \E k \in 1..Len(reviewData) : reviewData[k].user = u
  THEN CHOOSE k \in 1..Len(reviewData) : reviewData[k].user = u
  ELSE 0

\* one iteration of reviews.forEach for a review of pull request pr
addReview(reviewData, review, pr) ==
  IF review.user = "" THEN reviewData
  ELSE
    LET d == IF reviewerIndex(reviewData, review.user) = 0
             THEN Append(reviewData,
                         [user |-> review.user, count |-> 0,
                          submitted_at |-> <<>>, prs |-> <<>>])
             ELSE reviewData
        k == reviewerIndex(d, review.user)
    IN [d EXCEPT
          ![k].count = @ + 1,
          ![k].submitted_at =
             IF review.submitted_at # <<>>
             THEN Append(@, review.submitted_at[1]) ELSE @,
          ![k].prs =
             IF \E j \in 1..Len(@) : @[j].number = pr.number
             THEN @ ELSE Append(@, [number |-> pr.number])]

RECURSIVE addReviews(_, _, _, _)
addReviews(reviewData, list, k, pr) ==
  IF k > Len(list) THEN reviewData
  ELSE addReviews(addReview(reviewData, list[k], pr), list, k + 1, pr)

---------------------------------------------------------------------------
(* fetchAllStats: pure parts *)

\* (mutant) the percentage is truncated
roundPercentFloor(done, total) == (100 * done) \div total

\* Math.round((done / total) * 100): the nearest integer, halves upwards
\* (the quotient is taken exactly, not in floating point)
roundPercent(done, total) == (200 * done + total) \div (2 * total)

\* (mutant) the catch branch keeps what had been collected
failedRecordPartial(repoName, collectedCommits, collectedPrs) ==
  [repoName |-> repoName, commits |-> collectedCommits,
   prs |-> collectedPrs, reviews |-> <<>>]

\* the record the catch branch pushes: { repoName, [], [], {} }
failedRecord(repoName, collectedCommits, collectedPrs) == EmptyRepo(repoName)

Ev(kind, k) == [kind |-> kind, index |-> k]

\* (mutant) the start entry is logged when the first request has gone out
iterationOpeningLate(k, cached) ==
  IF cached THEN <<Ev("start", k)>> ELSE <<Ev("request", k), Ev("start", k)>>

\* the head of an iteration: the start entry, then fetchCommits sends its
\* first request unless the cache answers
iterationOpening(k, cached) ==
  IF cached THEN <<Ev("start", k)>> ELSE <<Ev("start", k), Ev("request", k)>>

---------------------------------------------------------------------------
(* One run of fetchAllStats(token, "acme", repos, onProgress, daysFilter,  *)
(* onDataUpdate, onLog) against an API that serves fixed repositories and  *)
(* answers each request with success, an error status or a network failure *)

RunOrg == "acme"

\* Date.now() during the run: a Wednesday 03:00 in the second week
RunNow == 10 * DayMs + 3 * HourMs

\* "web": one page of three commits (one without a GitHub login), a merged
\* and an open pull request, one review
ServedWeb ==
  [name |-> "web", default_branch |-> "main",
   commitPages |->
     <<[len |-> 3,
        items |-> <<[sha |-> 1, user |-> "alice", date |-> RunNow - HourMs],
                    [sha |-> 2, user |-> "", date |-> RunNow - HourMs],
                    [sha |-> 3, user |-> "bob", date |-> RunNow - 2 * HourMs]>>]>>,
   prPages |->
     <<[len |-> 2,
        items |-> <<[number |-> 1, user |-> "bob",
                     created_at |-> RunNow - 3 * HourMs,
                     merged_at |-> <<RunNow - HourMs>>,
                     closed_at |-> <<RunNow - HourMs>>,
                     updated_at |-> RunNow - HourMs],
                    [number |-> 2, user |-> "alice",
                     created_at |-> RunNow - 2 * HourMs,
                     merged_at |-> <<>>, closed_at |-> <<>>,
                     updated_at |-> RunNow - 2 * HourMs]>>]>>,
   details |-> <<[additions |-> 10, deletions |-> 2],
                 [additions |-> 5, deletions |-> 1]>>,
   reviewsOf |-> <<<<[user |-> "carol", submitted_at |-> <<RunNow - HourMs>>]>>,
                   <<>>>>]

\* "api": no default branch recorded, a full page of commits (one of them
\* with a login) and a short one, a pull request merged nine days ago with
\* a review that has no timestamp
ServedApi ==
  [name |-> "api", default_branch |-> "",
   commitPages |->
     <<[len |-> PerPage,
        items |-> <<[sha |-> 4, user |-> "alice",
                     date |-> RunNow - 3 * HourMs]>>],
       [len |-> 1,
        items |-> <<[sha |-> 5, user |-> "carol", date |-> RunNow - DayMs]>>]>>,
   prPages |->
     <<[len |-> 1,
        items |-> <<[number |-> 1, user |-> "bob",
                     created_at |-> RunNow - 9 * DayMs - HourMs,
                     merged_at |-> <<RunNow - 9 * DayMs>>,
                     closed_at |-> <<RunNow - 9 * DayMs>>,
                     updated_at |-> RunNow - 9 * DayMs]>>]>>,
   details |-> <<[additions |-> 4, deletions |-> 4]>>,
   reviewsOf |-> <<<<[user |-> "alice", submitted_at |-> <<>>]>>>>]

\* any further repository is empty
ServedEmpty(k) ==
  [name |-> "repo" \o ToString(k), default_branch |-> "main",
   commitPages |-> <<>>, prPages |-> <<>>, details |-> <<>>,
   reviewsOf |-> <<>>]

ServedRepo(k) ==
  IF k = 1 THEN ServedWeb ELSE IF k = 2 THEN ServedApi ELSE ServedEmpty(k)

\* repo.default_branch || 'main'
branchOf(repo) ==
  IF repo.default_branch = "" THEN "main" ELSE repo.default_branch

\* new Date(Date.now() - daysFilter * 24 * 60 * 60 * 1000), or null
sinceOf(days, t) == IF days # 0 THEN <<t - days * DayMs>> ELSE <<>>

\* entries an earlier run over "web" left in the cache a second ago
CachedCommits == <<[sha |-> 9, user |-> "dave", date |-> RunNow - HourMs]>>

CachedPrs ==
  <<[number |-> 2, user |-> "dave", created_at |-> RunNow - 2 * HourMs,
     merged_at |-> <<RunNow - HourMs>>, additions |-> <<1>>,
     deletions |-> <<1>>]>>

CachedReviews ==
  <<[user |-> "erin", count |-> 1, submitted_at |-> <<RunNow - HourMs>>,
     prs |-> <<[number |-> 2]>>]>>

WarmCommits(since) ==
  (CACHE_PREFIX \o commitsCacheKey(RunOrg, "web", "main", since)) :>
     serialize(cachePayload(CachedCommits), RunNow - SecMs)

WarmAll(since) ==
  WarmCommits(since)
    @@ ((CACHE_PREFIX \o prsCacheKey(RunOrg, "web", since)) :>
          serialize(cachePayload(CachedPrs), RunNow - SecMs))
    @@ ((CACHE_PREFIX \o reviewsCacheKey(RunOrg, "web", since)) :>
          serialize(cachePayload(CachedReviews), RunNow - SecMs))

\* fetchAllStats has been called and has not run yet
RunCalled ==
  /\ now = RunNow
  /\ daysFilter \in {0, 7}
  /\ \E n \in 0..MaxRepos : runRepos = [k \in 1..n |-> ServedRepo(k)]
  /\ storageFull \in BOOLEAN
  /\ localStorage \in {<<>>, WarmCommits(sinceOf(daysFilter, now)),
                       WarmAll(sinceOf(daysFilter, now))}
  /\ cacheTicks = 0
  /\ cacheSaved = <<>>
  /\ cacheGot = <<>>
  /\ repoDataArray = <<>>
  /\ aggPc = "idle"
  /\ nowAtCall = <<>>
  /\ inputAtCall = <<>>
  /\ aggResult = <<>>
  /\ FsIdle
  /\ FrIdle
  /\ KeyIdle
  /\ runPc = "begin"
  /\ runIdx = 0
  /\ sinceDate = <<>>
  /\ runCommits = <<>>
  /\ runPrs = <<>>
  /\ runReviews = <<>>
  /\ runPage = 0
  /\ runCursor = 0
  /\ events = <<>>
  /\ progress = <<>>
  /\ snapshots = <<>>
  /\ runResult = <<>>
  /\ refused = {}

InitRun ==
  /\ RunCalled
  /\ AppIdle

\* what a run leaves alone
runFrame ==
  UNCHANGED <<now, daysFilter, aggPc, nowAtCall, inputAtCall, aggResult,
              cacheTicks, cacheSaved, cacheGot, fsVars, runRepos, storageFull,
              appVars, frVars, keyVars>>

\* how a request is answered: 2xx, another status, or fetch / json() throws
Responses == {"ok", "not ok", "throw"}

\* the outcome of the setItem attempts of a saveToCache during the run
setItemOutcome ==
  IF storageFull THEN <<"quota", "fail">> ELSE <<"ok", "ok">>

\* saveToCache(key, value) during the run
save(ls, key, value) ==
  saveToCacheStore(ls, key, cachePayload(value), now, setItemOutcome)

currentRepo == runRepos[runIdx]

\* details and reviews the API serves for a pull request number
servedDetails(repo, number) ==
  IF number \in DOMAIN repo.details THEN repo.details[number]
  ELSE [additions |-> 0, deletions |-> 0]

servedReviews(repo, number) ==
  IF number \in DOMAIN repo.reviewsOf THEN repo.reviewsOf[number] ELSE <<>>

\* The loop head with i + 1 = k, reached with the records arr and the trace
\* evs: the next iteration up to the first await of fetchCommits, or the
\* return of the final aggregate.
Continue(k, since, arr, evs) ==
  /\ runPrs' = <<>>
  /\ runReviews' = <<>>
  /\ runCursor' = 0
  /\ IF k <= Len(runRepos)
     THEN LET r      == runRepos[k]
              key    == commitsCacheKey(RunOrg, r.name, branchOf(r), since)
              cached == getFromCacheResult(localStorage, key, now)
          IN /\ runIdx' = k
             /\ localStorage' = getFromCacheStore(localStorage, key, now)
             /\ runCommits' = IF cached # <<>> THEN cached[1].value ELSE <<>>
             /\ runPage' = IF cached # <<>> THEN 0 ELSE 1
             /\ runPc' = IF cached # <<>> THEN "commits_done" ELSE "commits"
             /\ events' = evs \o iterationOpening(k, cached # <<>>)
             /\ UNCHANGED runResult
     ELSE /\ runResult' = <<aggregateStats(arr, daysFilter, now)>>
          /\ runPc' = "returned"
          /\ events' = evs
          /\ runCommits' = <<>>
          /\ runPage' = 0
          /\ UNCHANGED <<runIdx, localStorage>>

\* The end of an iteration: the record is pushed and logged, the progress
\* and the snapshot are reported, and the loop goes on.
Settle(record, kind) ==
  LET arr == Append(repoDataArray, record)
      evs == events \o <<Ev(kind, runIdx), Ev("progress", runIdx),
                         Ev("snapshot", runIdx)>>
  IN /\ repoDataArray' = arr
     /\ progress' = Append(progress, roundPercent(runIdx, Len(runRepos)))
     /\ snapshots' =
          Append(snapshots,
                 [data |-> aggregateStats(arr, daysFilter, now),
                  done |-> runIdx, total |-> Len(runRepos)])
     /\ Continue(runIdx + 1, sinceDate, arr, evs)
     /\ UNCHANGED <<sinceDate, refused>>
     /\ runFrame

\* fetchAllStats is called
RunBegin ==
  /\ runPc = "begin"
  /\ sinceDate' = sinceOf(daysFilter, now)
  /\ Continue(1, sinceOf(daysFilter, now), repoDataArray, events)
  /\ UNCHANGED <<repoDataArray, progress, snapshots, refused>>
  /\ runFrame

\* fetchCommits: a page of the commit listing is answered
CommitsResponse ==
  /\ runPc = "commits"
  /\ LET r    == currentRepo
         key  == commitsCacheKey(RunOrg, r.name, branchOf(r), sinceDate)
         data == servedPage(r.commitPages, runPage)
         got  == runCommits \o attributedCommits(data.items)
         finish(list) ==
           /\ runCommits' = list
           /\ localStorage' = save(localStorage, key, list)
           /\ runPc' = "commits_done"
           /\ UNCHANGED <<runPage, events>>
     IN \E resp \in Responses :
          /\ refused' = IF resp = "not ok" THEN refused \cup {runIdx} ELSE refused
          /\ CASE resp = "throw" ->
                 /\ runPc' = "threw"
                 /\ UNCHANGED <<runCommits, localStorage, runPage, events>>
            [] resp = "not ok" -> finish(runCommits)
            [] resp = "ok" ->
                 IF data.len = 0 THEN finish(runCommits)
                 ELSE IF data.len < PerPage THEN finish(got)
                 ELSE IF withinMaxPages(runPage + 1, sinceDate)
                 THEN /\ runCommits' = got
                      /\ runPage' = runPage + 1
                      /\ events' = Append(events, Ev("request", runIdx))
                      /\ UNCHANGED <<runPc, localStorage>>
                 ELSE finish(got)
  /\ UNCHANGED <<runIdx, sinceDate, runPrs, runReviews, runCursor, progress,
                 snapshots, runResult, repoDataArray>>
  /\ runFrame

\* fetchCommits has returned: fetchPullRequests up to its first await
AfterCommits ==
  /\ runPc = "commits_done"
  /\ LET key    == prsCacheKey(RunOrg, currentRepo.name, sinceDate)
         cached == getFromCacheResult(localStorage, key, now)
     IN /\ localStorage' = getFromCacheStore(localStorage, key, now)
        /\ IF cached # <<>>
           THEN /\ runPrs' = cached[1].value
                /\ runPc' = "prs_done"
                /\ UNCHANGED <<runPage, events>>
           ELSE /\ runPrs' = <<>>
                /\ runPage' = 1
                /\ events' = Append(events, Ev("request", runIdx))
                /\ runPc' = "prs"
  /\ UNCHANGED <<runIdx, sinceDate, runCommits, runReviews, runCursor,
                 progress, snapshots, runResult, repoDataArray, refused>>
  /\ runFrame

\* fetchPullRequests: a page of the pull request listing is answered
PrsResponse ==
  /\ runPc = "prs"
  /\ LET r        == currentRepo
         key      == prsCacheKey(RunOrg, r.name, sinceDate)
         data     == servedPage(r.prPages, runPage)
         filtered == filterPRs(data.items, sinceDate)
         got      == runPrs \o basicPRs(filtered)
         toDetails(list) ==
           /\ runPrs' = list
           /\ UNCHANGED runPage
           /\ IF mergedPositions(list) = <<>>
              THEN /\ localStorage' = save(localStorage, key, list)
                   /\ runPc' = "prs_done"
                   /\ UNCHANGED <<runCursor, events>>
              ELSE /\ runCursor' = 1
                   /\ events' = Append(events, Ev("request", runIdx))
                   /\ runPc' = "pr_detail"
                   /\ UNCHANGED localStorage
     IN \E resp \in Responses :
          /\ refused' = IF resp = "not ok" THEN refused \cup {runIdx} ELSE refused
          /\ CASE resp = "throw" ->
                 /\ runPc' = "threw"
                 /\ UNCHANGED <<runPrs, localStorage, runPage, runCursor,
                                events>>
            [] resp = "not ok" -> toDetails(runPrs)
            [] resp = "ok" ->
                 IF sinceDate # <<>> /\ data.len > 0 /\ filtered = <<>>
                 THEN toDetails(runPrs)
                 ELSE IF data.len < PerPage THEN toDetails(got)
                 ELSE IF withinMaxPages(runPage + 1, sinceDate)
                 THEN /\ runPrs' = got
                      /\ runPage' = runPage + 1
                      /\ events' = Append(events, Ev("request", runIdx))
                      /\ UNCHANGED <<runPc, localStorage, runCursor>>
                 ELSE toDetails(got)
  /\ UNCHANGED <<runIdx, sinceDate, runCommits, runReviews, progress,
                 snapshots, runResult, repoDataArray>>
  /\ runFrame

\* fetchPullRequests: the details of a merged pull request are answered
PrDetailResponse ==
  /\ runPc = "pr_detail"
  /\ LET r   == currentRepo
         key == prsCacheKey(RunOrg, r.name, sinceDate)
         pos == mergedPositions(runPrs)
         k   == pos[runCursor]
     IN \E resp \in Responses :
          LET list == IF resp = "ok"
                      THEN enrichPR(runPrs, k,
                                    servedDetails(r, runPrs[k].number))
                      ELSE runPrs
          IN /\ runPrs' = list
             /\ UNCHANGED refused
             /\ IF runCursor < Len(pos)
                THEN /\ runCursor' = runCursor + 1
                     /\ events' = Append(events, Ev("request", runIdx))
                     /\ UNCHANGED <<runPc, localStorage>>
                ELSE /\ localStorage' = save(localStorage, key, list)
                     /\ runPc' = "prs_done"
                     /\ UNCHANGED <<runCursor, events>>
  /\ UNCHANGED <<runIdx, sinceDate, runCommits, runReviews, runPage, progress,
                 snapshots, runResult, repoDataArray>>
  /\ runFrame

\* fetchPullRequests has returned: fetchReviews up to its first await
AfterPrs ==
  /\ runPc = "prs_done"
  /\ LET key    == reviewsCacheKey(RunOrg, currentRepo.name, sinceDate)
         cached == getFromCacheResult(localStorage, key, now)
         ls     == getFromCacheStore(localStorage, key, now)
     IN IF cached # <<>>
        THEN /\ runReviews' = cached[1].value
             /\ localStorage' = ls
             /\ runPc' = "reviews_done"
             /\ UNCHANGED <<runCursor, events>>
        ELSE IF prsToCheck(runPrs) = <<>>
        THEN /\ runReviews' = <<>>
             /\ localStorage' = save(ls, key, <<>>)
             /\ runPc' = "reviews_done"
             /\ UNCHANGED <<runCursor, events>>
        ELSE /\ runReviews' = <<>>
             /\ localStorage' = ls
             /\ runCursor' = 1
             /\ events' = Append(events, Ev("request", runIdx))
             /\ runPc' = "reviews"
  /\ UNCHANGED <<runIdx, sinceDate, runCommits, runPrs, runPage, progress,
                 snapshots, runResult, repoDataArray, refused>>
  /\ runFrame

\* fetchReviews: the reviews of one pull request are answered
ReviewsResponse ==
  /\ runPc = "reviews"
  /\ LET r    == currentRepo
         key  == reviewsCacheKey(RunOrg, r.name, sinceDate)
         list == prsToCheck(runPrs)
         pr   == list[runCursor]
     IN \E resp \in Responses :
          LET got == IF resp = "ok"
                     THEN addReviews(runReviews, servedReviews(r, pr.number),
                                     1, pr)
                     ELSE runReviews
          IN /\ runReviews' = got
             /\ UNCHANGED refused
             /\ IF runCursor < Len(list)
                THEN /\ runCursor' = runCursor + 1
                     /\ events' = Append(events, Ev("request", runIdx))
                     /\ UNCHANGED <<runPc, localStorage>>
                ELSE /\ localStorage' = save(localStorage, key, got)
                     /\ runPc' = "reviews_done"
                     /\ UNCHANGED <<runCursor, events>>
  /\ UNCHANGED <<runIdx, sinceDate, runCommits, runPrs, runPage, progress,
                 snapshots, runResult, repoDataArray>>
  /\ runFrame

\* fetchReviews has returned: the rest of the try block and of the iteration
AfterReviews ==
  /\ runPc = "reviews_done"
  /\ Settle([repoName |-> currentRepo.name, commits |-> runCommits,
             prs |-> runPrs, reviews |-> runReviews], "complete")

\* a fetcher has thrown: the catch block and the rest of the iteration
AfterThrow ==
  /\ runPc = "threw"
  /\ Settle(failedRecord(currentRepo.name, runCommits, runPrs), "error")

Next ==
  \/ RunBegin
  \/ CommitsResponse
  \/ AfterCommits
  \/ PrsResponse
  \/ PrDetailResponse
  \/ AfterPrs
  \/ ReviewsResponse
  \/ AfterReviews
  \/ AfterThrow

Spec == InitRun /\ [][Next]_vars

---------------------------------------------------------------------------
(* A run of fetchAllStats while the clock moves on: every aggregateStats   *)
(* call of the run reads Date.now() anew                                   *)

\* "edge": one commit, committed at the instant the window of the run starts
ServedEdge ==
  [name |-> "edge", default_branch |-> "main",
   commitPages |->
     <<[len |-> 1,
        items |-> <<[sha |-> 7, user |-> "erin",
                     date |-> RunNow - 7 * DayMs]>>]>>,
   prPages |-> <<>>, details |-> <<>>, reviewsOf |-> <<>>]

InitSliding ==
  /\ now = RunNow
  /\ daysFilter \in {0, 7}
  /\ runRepos \in {<<ServedEdge>>, <<ServedEdge, ServedWeb>>}
  /\ storageFull = FALSE
  /\ localStorage = <<>>
  /\ cacheTicks = 0
  /\ cacheSaved = <<>>
  /\ cacheGot = <<>>
  /\ repoDataArray = <<>>
  /\ aggPc = "idle"
  /\ nowAtCall = <<>>
  /\ inputAtCall = <<>>
  /\ aggResult = <<>>
  /\ FsIdle
  /\ AppIdle
  /\ FrIdle
  /\ KeyIdle
  /\ runPc = "begin"
  /\ runIdx = 0
  /\ sinceDate = <<>>
  /\ runCommits = <<>>
  /\ runPrs = <<>>
  /\ runReviews = <<>>
  /\ runPage = 0
  /\ runCursor = 0
  /\ events = <<>>
  /\ progress = <<>>
  /\ snapshots = <<>>
  /\ runResult = <<>>
  /\ refused = {}

\* a second passes while the run awaits a response
ClockAdvances ==
  /\ runPc \notin {"begin", "returned"}
  /\ cacheTicks < MaxTicks
  /\ now' = now + SecMs
  /\ cacheTicks' = cacheTicks + 1
  /\ UNCHANGED <<localStorage, cacheSaved, cacheGot, aggVars, fsVars, runVars,
                 appVars, frVars, keyVars>>

NextSliding ==
  \/ Next
  \/ ClockAdvances

SpecSliding == InitSliding /\ [][NextSliding]_vars

---------------------------------------------------------------------------
(* fetchPullRequests(token, "acme", "busy", sinceDate) on its own, over a   *)
(* listing of one to three pages                                            *)

\* Page p of a listing, by kind.  "mixed": a full page whose first PR was
\* merged exactly at the start of a 7-day window and whose other PRs were
\* merged two days earlier.  "old": a full page of PRs merged two days
\* before the window, the first of them updated an hour ago.  "fresh": one
\* open PR updated two hours ago.  "stale": one PR closed unmerged two days
\* before the window.  "new": one open PR created an hour ago.  All but the
\* last were created before the window.
PullPage(kind, p) ==
  LET cut == RunNow - 7 * DayMs
      old == cut - 2 * DayMs
      pr(k, merged, closed, updated) ==
        [number |-> PerPage * (p - 1) + k, user |-> "bob",
         created_at |-> old - HourMs, merged_at |-> merged,
         closed_at |-> closed, updated_at |-> updated]
  IN CASE kind = "mixed" ->
            [len |-> PerPage,
             items |-> [k \in 1..PerPage |->
                          IF k = 1 THEN pr(k, <<cut>>, <<cut>>, cut)
                          ELSE pr(k, <<old>>, <<old>>, old)]]
       [] kind = "old" ->
            [len |-> PerPage,
             items |-> [k \in 1..PerPage |->
                          pr(k, <<old>>, <<old>>,
                             IF k = 1 THEN RunNow - HourMs ELSE old)]]
       [] kind = "fresh" ->
            [len |-> 1,
             items |-> <<pr(1, <<>>, <<>>, RunNow - 2 * HourMs)>>]
       [] kind = "stale" ->
            [len |-> 1, items |-> <<pr(1, <<>>, <<old>>, old)>>]
       [] kind = "new" ->
            [len |-> 1,
             items |-> <<[pr(1, <<>>, <<>>, RunNow - HourMs)
                            EXCEPT !.created_at = RunNow - HourMs]>>]

PullPageKinds == {"mixed", "old", "fresh", "stale", "new"}

InitPulls ==
  /\ now = RunNow
  /\ daysFilter = 7
  /\ \E n \in 1..3 : \E kinds \in [1..n -> PullPageKinds] :
       runRepos =
         <<[name |-> "busy", default_branch |-> "main", commitPages |-> <<>>,
            prPages |-> [q \in 1..n |-> PullPage(kinds[q], q)],
            details |-> <<[additions |-> 10, deletions |-> 2]>>,
            reviewsOf |-> <<>>]>>
  /\ storageFull \in BOOLEAN
  /\ localStorage = <<>>
  /\ cacheTicks = 0
  /\ cacheSaved = <<>>
  /\ cacheGot = <<>>
  /\ repoDataArray = <<>>
  /\ aggPc = "idle"
  /\ nowAtCall = <<>>
  /\ inputAtCall = <<>>
  /\ aggResult = <<>>
  /\ FsIdle
  /\ AppIdle
  /\ FrIdle
  /\ KeyIdle
  /\ runPc = "commits_done"
  /\ runIdx = 1
  /\ sinceDate = sinceOf(7, RunNow)
  /\ runCommits = <<>>
  /\ runPrs = <<>>
  /\ runReviews = <<>>
  /\ runPage = 0
  /\ runCursor = 0
  /\ events = <<Ev("start", 1)>>
  /\ progress = <<>>
  /\ snapshots = <<>>
  /\ runResult = <<>>
  /\ refused = {}

NextPulls ==
  \/ AfterCommits
  \/ PrsResponse
  \/ PrDetailResponse

SpecPulls == InitPulls /\ [][NextPulls]_vars

---------------------------------------------------------------------------
(* The requests one repository costs: fetchCommits, fetchPullRequests and  *)
(* fetchReviews over listings longer than their limits, or fetchStats with *)
(* its fallback                                                            *)

\* merged pull requests on each full page of the busy repository
MergedPerPage == MergedDetailCap + 5

\* a full page of pull requests inside a 7-day window: the first ones merged
\* an hour ago, the others open and updated two hours ago
WidePage(p) ==
  [len |-> PerPage,
   items |-> [k \in 1..PerPage |->
                [number |-> PerPage * (p - 1) + k, user |-> "bob",
                 created_at |-> RunNow - DayMs,
                 merged_at |-> IF k <= MergedPerPage
                               THEN <<RunNow - HourMs>> ELSE <<>>,
                 closed_at |-> IF k <= MergedPerPage
                               THEN <<RunNow - HourMs>> ELSE <<>>,
                 updated_at |-> IF k <= MergedPerPage
                                THEN RunNow - HourMs ELSE RunNow - 2 * HourMs]]]

\* a full page of commits, one of them with a login
FullCommitPage(p) ==
  [len |-> PerPage,
   items |-> <<[sha |-> p, user |-> "alice", date |-> RunNow - p * HourMs]>>]

\* a repository whose commit listing has nc full pages and whose pull
\* request listing has np full pages, each followed by a short last page;
\* only pull request 1 has a review
BusyRepo(nc, np) ==
  [name |-> "busy", default_branch |-> "main",
   commitPages |->
     [p \in 1..nc + 1 |->
        IF p <= nc THEN FullCommitPage(p)
        ELSE [len |-> 1,
              items |-> <<[sha |-> p, user |-> "bob",
                           date |-> RunNow - DayMs]>>]],
   prPages |->
     [p \in 1..np + 1 |->
        IF p <= np THEN WidePage(p) ELSE PullPage("fresh", p)],
   details |-> <<[additions |-> 10, deletions |-> 2]>>,
   reviewsOf |-> <<<<[user |-> "carol", submitted_at |-> <<RunNow - HourMs>>]>>>>]

\* fetchAllStats is called for the busy repository, or fetchStats for "web"
InitVolume ==
  \/ /\ now = RunNow
     /\ daysFilter \in {0, 7}
     /\ runRepos \in {<<BusyRepo(PageCap + 1, 0)>>, <<BusyRepo(0, PageCap + 1)>>}
     /\ storageFull = FALSE
     /\ localStorage = <<>>
     /\ cacheTicks = 0
     /\ cacheSaved = <<>>
     /\ cacheGot = <<>>
     /\ repoDataArray = <<>>
     /\ aggPc = "idle"
     /\ nowAtCall = <<>>
     /\ inputAtCall = <<>>
     /\ aggResult = <<>>
     /\ FsIdle
     /\ AppIdle
     /\ FrIdle
     /\ KeyIdle
     /\ runPc = "begin"
     /\ runIdx = 0
     /\ sinceDate = <<>>
     /\ runCommits = <<>>
     /\ runPrs = <<>>
     /\ runReviews = <<>>
     /\ runPage = 0
     /\ runCursor = 0
     /\ events = <<>>
     /\ progress = <<>>
     /\ snapshots = <<>>
     /\ runResult = <<>>
     /\ refused = {}
  \/ InitFetchStats

\* the detail of a merged pull request is answered; from the third detail
\* request on every answer is a 200
BusyDetailResponse ==
  /\ PrDetailResponse
  /\ runCursor > 2 =>
       runPrs'[mergedPositions(runPrs)[runCursor]].additions # <<>>

NextVolume ==
  \/ RunBegin
  \/ CommitsResponse
  \/ AfterCommits
  \/ PrsResponse
  \/ BusyDetailResponse
  \/ AfterPrs
  \/ ReviewsResponse
  \/ FsEnter
  \/ FsResponse
  \/ FsTimer
  \/ FbEnter
  \/ FbPageResponse
  \/ FbDetailResponse
  \/ FbFinish

SpecVolume == InitVolume /\ [][NextVolume]_vars

---------------------------------------------------------------------------
(* fetchRepos: the repository listing of an organization, page by page *)

FrOrg == "acme"

reposCacheKey(org) == "repos_" \o org

\* new Date(resetTime * 1000).toLocaleTimeString(): the time of day, in
\* seconds after local midnight
resetClock(resetTime) == resetTime % 86400

\* (mutant) every 403 is reported as forbidden
classifyNoRateLimit(r) ==
  IF r.status = 401 THEN [kind |-> "invalid token"]
  ELSE IF r.status = 404 THEN [kind |-> "org not found", org |-> FrOrg]
  ELSE IF r.status = 403 THEN [kind |-> "forbidden"]
  ELSE [kind |-> "failed", status |-> r.status, statusText |-> r.statusText]

\* the Error thrown for a response that is not ok
classify(r) ==
  IF r.status = 401 THEN [kind |-> "invalid token"]
  ELSE IF r.status = 404 THEN [kind |-> "org not found", org |-> FrOrg]
  ELSE IF r.status = 403
       THEN IF r.remaining = <<"0">>
            THEN [kind |-> "rate limit",
                  resetsAt |-> resetClock(IF r.reset = <<>> THEN 0 ELSE r.reset[1])]
            ELSE [kind |-> "forbidden"]
  ELSE [kind |-> "failed", status |-> r.status, statusText |-> r.statusText]

\* response.ok
responseOk(r) == r.status >= 200 /\ r.status <= 299

\* what the cache holds for a listing of n repositories
reposPayload(n) == [id |-> 100 + n, undefinedProps |-> 0, bytes |-> 2 + 300 * n]

\* the number of repositories on page p of a listing of n
reposOnPage(n, p) ==
  IF n >= PerPage * p THEN PerPage
  ELSE IF n > PerPage * (p - 1) THEN n - PerPage * (p - 1) ELSE 0

\* the responses the API can give to the request of a page
RepoResponses(n, p) ==
  { [status |-> 200, statusText |-> "", remaining |-> <<"37">>, reset |-> <<>>,
     items |-> reposOnPage(n, p)] }
  \cup
  { [status |-> st, statusText |-> "", remaining |-> <<"37">>, reset |-> <<>>,
     items |-> 0] : st \in {401, 404, 429} }
  \cup
  { [status |-> 500, statusText |-> tx, remaining |-> <<>>, reset |-> <<>>,
     items |-> 0] : tx \in {"", "Internal Server Error"} }
  \cup
  { [status |-> 403, statusText |-> "", remaining |-> rem, reset |-> <<rs>>,
     items |-> 0] : rem \in {<<"0">>, <<"37">>, <<>>},
                    rs \in {RunNow \div 1000 + 60, RunNow \div 1000 + 1800} }

FrInitialStores ==
  { <<>>,
    (CACHE_PREFIX \o reposCacheKey(FrOrg)) :>
       serialize(reposPayload(40), RunNow - 60000),
    (CACHE_PREFIX \o reposCacheKey(FrOrg)) :>
       serialize(reposPayload(40), RunNow - CACHE_EXPIRY_MS - 1) }

InitFetchRepos ==
  /\ now = RunNow
  /\ localStorage \in FrInitialStores
  /\ cacheTicks = 0
  /\ cacheSaved = <<>>
  /\ cacheGot = <<>>
  /\ AggIdle
  /\ FsIdle
  /\ RunIdle
  /\ AppIdle
  /\ FrIdle
  /\ KeyIdle

frFrame ==
  UNCHANGED <<now, aggVars, cacheTicks, cacheSaved, cacheGot, fsVars, runVars,
              appVars, keyVars>>

\* fetchRepos(token, org) up to its first await: the cache is read, and on
\* a miss the loop starts with page 1
FrEnter ==
  /\ frPc \in {"idle", "returned", "threw"}
  /\ frCalls < MaxCalls
  /\ frCalls' = frCalls + 1
  /\ \E n \in {0, 40, 100, 140, 200} : frListing' = n
  /\ LET cached == getFromCacheResult(localStorage, reposCacheKey(FrOrg), now)
     IN /\ localStorage' =
             getFromCacheStore(localStorage, reposCacheKey(FrOrg), now)
        /\ IF cached # <<>>
           THEN /\ frPc' = "returned"
                /\ frResult' = cached
           ELSE /\ frPc' = "fetching"
                /\ frResult' = <<>>
  /\ frPage' = 1
  /\ frRequests' = 0
  /\ frCount' = 0
  /\ frLast' = <<>>
  /\ frError' = <<>>
  /\ frFrame

\* a page request is answered: throw on a response that is not ok, else
\* push the page and go on or, after a short page, save and return
FrResponse ==
  /\ frPc = "fetching"
  /\ \E r \in RepoResponses(frListing, frPage) :
       /\ frLast' = <<r>>
       /\ frRequests' = frRequests + 1
       /\ IF ~responseOk(r)
          THEN /\ frPc' = "threw"
               /\ frError' = <<classify(r)>>
               /\ UNCHANGED <<frPage, frCount, frResult, localStorage>>
          ELSE /\ frCount' = frCount + r.items
               /\ frError' = <<>>
               /\ IF r.items < PerPage
                  THEN /\ frPc' = "returned"
                       /\ frResult' = <<jsonImage(reposPayload(frCount + r.items))>>
                       /\ localStorage' =
                            saveToCacheStore(localStorage, reposCacheKey(FrOrg),
                                             reposPayload(frCount + r.items),
                                             now, <<"ok", "ok">>)
                       /\ UNCHANGED frPage
                  ELSE /\ frPc' = "fetching"
                       /\ frPage' = frPage + 1
                       /\ UNCHANGED <<frResult, localStorage>>
  /\ UNCHANGED <<frCalls, frListing>>
  /\ frFrame

\* fetch rejects or response.json() throws
FrNetworkError ==
  /\ frPc = "fetching"
  /\ frRequests' = frRequests + 1
  /\ frLast' = <<>>
  /\ frPc' = "threw"
  /\ frError' = <<[kind |-> "network"]>>
  /\ UNCHANGED <<frCalls, frListing, frPage, frCount, frResult, localStorage>>
  /\ frFrame

NextFetchRepos ==
  \/ FrEnter
  \/ FrResponse
  \/ FrNetworkError

SpecFetchRepos == InitFetchRepos /\ [][NextFetchRepos]_vars

---------------------------------------------------------------------------
(* The cache keys of the six kinds of query, used to save and to read *)

\* organizations, repositories, default branches and since dates
KeyOrgs == {"acme"}
KeyRepos == {"web", "web_api", "web_since_day3"}
KeyBranches == {"main", "api_main"}
KeySinces == {<<>>, <<3 * DayMs + HourMs>>, <<4 * DayMs>>}

\* a query: its kind and the parameters its fetcher is called with
Queries ==
  {[kind |-> "repos", org |-> o] : o \in KeyOrgs}
  \cup
  {[kind |-> kd, org |-> o, repo |-> r] :
     kd \in {"stats", "commit stats"}, o \in KeyOrgs, r \in KeyRepos}
  \cup
  {[kind |-> "commits", org |-> o, repo |-> r, branch |-> b, since |-> sn] :
     o \in KeyOrgs, r \in KeyRepos, b \in KeyBranches, sn \in KeySinces}
  \cup
  {[kind |-> kd, org |-> o, repo |-> r, since |-> sn] :
     kd \in {"prs", "reviews"}, o \in KeyOrgs, r \in KeyRepos,
     sn \in KeySinces}

\* the logical query: the since date counts by its day
logicalQuery(q) ==
  IF q.kind \in {"commits", "prs", "reviews"}
  THEN [q EXCEPT !.since = IF @ = <<>> THEN "" ELSE isoDay(@[1])]
  ELSE q

\* the cacheKey each fetcher builds
cacheKeyOf(q) ==
  CASE q.kind = "repos" -> reposCacheKey(q.org)
    [] q.kind = "stats" -> statsCacheKey(q.org, q.repo)
    [] q.kind = "commit stats" -> commitStatsCacheKey(q.org, q.repo)
    [] q.kind = "commits" -> commitsCacheKey(q.org, q.repo, q.branch, q.since)
    [] q.kind = "prs" -> prsCacheKey(q.org, q.repo, q.since)
    [] q.kind = "reviews" -> reviewsCacheKey(q.org, q.repo, q.since)

\* the result of a query as a payload of the cache
queryPayload(q) == [value |-> logicalQuery(q), undefinedProps |-> 0, bytes |-> 100]

InitKeys ==
  /\ now = RunNow
  /\ localStorage = <<>>
  /\ cacheTicks = 0
  /\ cacheSaved = <<>>
  /\ cacheGot = <<>>
  /\ AggIdle
  /\ FsIdle
  /\ RunIdle
  /\ AppIdle
  /\ FrIdle
  /\ KeyIdle

keyFrame ==
  UNCHANGED <<now, aggVars, cacheTicks, cacheSaved, cacheGot, fsVars, runVars,
              appVars, frVars>>

\* a fetcher saves its result: saveToCache(cacheKey, result)
KeySave ==
  /\ Cardinality(DOMAIN localStorage) < MaxEntries
  /\ \E q \in Queries :
       localStorage' =
         saveToCacheStore(localStorage, cacheKeyOf(q), queryPayload(q), now,
                          <<"ok", "ok">>)
  /\ keyGot' = <<>>
  /\ keyFrame

\* a fetcher reads the cache: getFromCache(cacheKey)
KeyGet ==
  /\ \E q \in Queries :
       /\ keyGot' = <<[query |-> logicalQuery(q),
                       result |-> getFromCacheResult(localStorage,
                                                     cacheKeyOf(q), now)]>>
       /\ localStorage' = getFromCacheStore(localStorage, cacheKeyOf(q), now)
  /\ keyFrame

NextKeys ==
  \/ KeySave
  \/ KeyGet

SpecKeys == InitKeys /\ [][NextKeys]_vars

---------------------------------------------------------------------------
(* The App component: token, Generate and Refresh buttons, the auto-refresh *)
(* interval, and the runs of fetchAllStats it starts.  A state update made  *)
(* in a click handler is rendered before the next event; one made in a      *)
(* timer callback or after an await is rendered by a later task.           *)

TOKEN_STORAGE_KEY == "github_leaderboard_token"

\* useState(() => localStorage.getItem(TOKEN_STORAGE_KEY) || "")
storedToken(ls) ==
  IF TOKEN_STORAGE_KEY \in DOMAIN ls THEN ls[TOKEN_STORAGE_KEY] ELSE ""

\* the effect on [token]: setItem when the token is set, removeItem if not
persistToken(ls, t) ==
  IF t # "" THEN setItem(ls, TOKEN_STORAGE_KEY, t)
  ELSE removeItem(ls, TOKEN_STORAGE_KEY)

\* the condition under which the auto-refresh effect sets its interval
intervalWanted(shown, enabled, loading) == shown /\ enabled /\ ~loading

AppCacheEntry ==
  (CACHE_PREFIX \o "repos_acme") :>
     serialize([id |-> 1, undefinedProps |-> 0, bytes |-> 100], RunNow)

InitApp ==
  /\ now = RunNow
  /\ localStorage \in {<<>>, AppCacheEntry}
  /\ cacheTicks = 0
  /\ cacheSaved = <<>>
  /\ cacheGot = <<>>
  /\ AggIdle
  /\ FsIdle
  /\ RunIdle
  /\ AppIdle
  /\ FrIdle
  /\ KeyIdle

appFrame ==
  UNCHANGED <<now, aggVars, cacheTicks, cacheSaved, cacheGot, fsVars, runVars,
              frVars, keyVars>>

\* TokenInput onChange: setToken, render, token effect
TypeToken ==
  /\ \E t \in {"", "ghp_a", "ghp_b"} :
       /\ token' = t
       /\ localStorage' = persistToken(localStorage, t)
  /\ UNCHANGED <<loadingStats, renderedLoading, autoRefreshRef,
                 autoRefreshEnabled, leaderboardShown, hasSelection,
                 activeRuns, pageLoads, error>>
  /\ appFrame

\* handleClearToken
ClearToken ==
  /\ token' = ""
  /\ localStorage' = persistToken(clearCache(localStorage), "")
  /\ UNCHANGED <<loadingStats, renderedLoading, autoRefreshRef,
                 autoRefreshEnabled, leaderboardShown, hasSelection,
                 activeRuns, pageLoads, error>>
  /\ appFrame

\* the page is reloaded: state is initialised again, pending work is gone
PageReload ==
  /\ pageLoads < MaxLoads
  /\ pageLoads' = pageLoads + 1
  /\ token' = storedToken(localStorage)
  /\ localStorage' = persistToken(localStorage, storedToken(localStorage))
  /\ loadingStats' = FALSE
  /\ renderedLoading' = FALSE
  /\ autoRefreshRef' = FALSE
  /\ autoRefreshEnabled' = TRUE
  /\ leaderboardShown' = FALSE
  /\ hasSelection' = FALSE
  /\ activeRuns' = 0
  /\ error' = ""
  /\ appFrame

\* repositories are fetched and selected, or the selection is emptied
SelectRepos ==
  /\ hasSelection' = ~hasSelection
  /\ UNCHANGED <<token, localStorage, loadingStats, renderedLoading,
                 autoRefreshRef, autoRefreshEnabled, leaderboardShown,
                 activeRuns, pageLoads, error>>
  /\ appFrame

\* handleGenerateLeaderboard up to its await, called from a click handler:
\* the new state is rendered and the effect cleaned up before the next event
startRunFromClick(isAutoRefresh) ==
  IF hasSelection
  THEN /\ loadingStats' = TRUE
       /\ renderedLoading' = TRUE
       /\ autoRefreshRef' = FALSE
       /\ activeRuns' = activeRuns + 1
       /\ error' = ""
  ELSE /\ error' = IF isAutoRefresh THEN error ELSE "select a repository"
       /\ UNCHANGED <<loadingStats, renderedLoading, autoRefreshRef,
                      activeRuns>>

\* the Generate button of RepoSelector (disabled while loading is rendered
\* or nothing is selected): handleGenerateClick
GenerateClick ==
  /\ ~renderedLoading
  /\ hasSelection
  /\ activeRuns < MaxRuns
  /\ startRunFromClick(FALSE)
  /\ UNCHANGED <<token, localStorage, autoRefreshEnabled, leaderboardShown,
                 hasSelection, pageLoads>>
  /\ appFrame

\* the Refresh button (shown with the leaderboard, disabled while loading
\* is rendered): handleManualRefresh
RefreshClick ==
  /\ leaderboardShown
  /\ ~renderedLoading
  /\ activeRuns < MaxRuns
  /\ localStorage' = clearCache(localStorage)
  /\ startRunFromClick(FALSE)
  /\ UNCHANGED <<token, autoRefreshEnabled, leaderboardShown, hasSelection,
                 pageLoads>>
  /\ appFrame

\* the interval fires: clearCache(); handleGenerateLeaderboard(true); the
\* state updates wait for a later render
TimerTick ==
  /\ autoRefreshRef
  /\ activeRuns < MaxRuns
  /\ localStorage' = clearCache(localStorage)
  /\ IF hasSelection
     THEN /\ loadingStats' = TRUE
          /\ activeRuns' = activeRuns + 1
          /\ error' = ""
     ELSE UNCHANGED <<loadingStats, activeRuns, error>>
  /\ UNCHANGED <<token, renderedLoading, autoRefreshRef, autoRefreshEnabled,
                 leaderboardShown, hasSelection, pageLoads>>
  /\ appFrame

\* React commits a render: the buttons and the auto-refresh effect see the
\* current state
Render ==
  /\ renderedLoading' = loadingStats
  /\ autoRefreshRef' =
       intervalWanted(leaderboardShown, autoRefreshEnabled, loadingStats)
  /\ UNCHANGED <<token, localStorage, loadingStats, autoRefreshEnabled,
                 leaderboardShown, hasSelection, activeRuns, pageLoads, error>>
  /\ appFrame

\* the auto-refresh checkbox
ToggleAutoRefresh ==
  /\ leaderboardShown
  /\ autoRefreshEnabled' = ~autoRefreshEnabled
  /\ autoRefreshRef' =
       intervalWanted(leaderboardShown, ~autoRefreshEnabled, renderedLoading)
  /\ UNCHANGED <<token, localStorage, loadingStats, renderedLoading,
                 leaderboardShown, hasSelection, activeRuns, pageLoads, error>>
  /\ appFrame

\* handleClearCache
ClearCacheClick ==
  /\ localStorage' = clearCache(localStorage)
  /\ hasSelection' = FALSE
  /\ leaderboardShown' = FALSE
  /\ autoRefreshRef' = FALSE
  /\ UNCHANGED <<token, loadingStats, renderedLoading, autoRefreshEnabled,
                 activeRuns, pageLoads, error>>
  /\ appFrame

\* a run calls onDataUpdate with a non-empty aggregate: setLeaderboard
RunUpdate ==
  /\ activeRuns > 0
  /\ leaderboardShown' = TRUE
  /\ UNCHANGED <<token, localStorage, loadingStats, renderedLoading,
                 autoRefreshRef, autoRefreshEnabled, hasSelection, activeRuns,
                 pageLoads, error>>
  /\ appFrame

\* (mutant) the handler leaves the flag as it is
flagAfterRunKept(outcome) == loadingStats

\* finally { setLoadingStats(false) }
flagAfterRun(outcome) == FALSE

\* the awaited fetchAllStats settles: catch (setError) and finally
RunSettles ==
  /\ activeRuns > 0
  /\ \E outcome \in {"returned", "threw"} :
       /\ error' = IF outcome = "threw" THEN "run failed" ELSE error
       /\ loadingStats' = flagAfterRun(outcome)
  /\ activeRuns' = activeRuns - 1
  /\ UNCHANGED <<token, localStorage, renderedLoading, autoRefreshRef,
                 autoRefreshEnabled, leaderboardShown, hasSelection, pageLoads>>
  /\ appFrame

NextApp ==
  \/ TypeToken
  \/ ClearToken
  \/ PageReload
  \/ SelectRepos
  \/ GenerateClick
  \/ RefreshClick
  \/ TimerTick
  \/ Render
  \/ ToggleAutoRefresh
  \/ ClearCacheClick
  \/ RunUpdate
  \/ RunSettles

SpecApp == InitApp /\ [][NextApp]_vars

---------------------------------------------------------------------------
(* The App's token and the cache: the token is typed, cleared or reloaded, *)
(* and the fetches the handlers start read and fill the cache              *)

\* what the API returns to a request made with token t, as a payload of the
\* cache
fetchedData(t) ==
  [id |-> 1, undefinedProps |-> 0, bytes |-> 100, fetchedWith |-> t]

InitTokens ==
  /\ now = RunNow
  /\ CacheIdle
  /\ AggIdle
  /\ FsIdle
  /\ RunIdle
  /\ AppIdle
  /\ FrIdle
  /\ KeyIdle

\* a fetcher called with the App's token and the cache key `key`: the cache
\* answers, or the request is sent and, when it succeeds, its data is saved
fetchThroughCache(kind, key, ok) ==
  LET cached == getFromCacheResult(localStorage, key, now)
      ls     == getFromCacheStore(localStorage, key, now)
  IN /\ keyGot' = <<[query |-> [kind |-> kind, token |-> token],
                     result |-> cached]>>
     /\ localStorage' =
          IF cached = <<>> /\ ok
          THEN saveToCacheStore(ls, key, fetchedData(token), now,
                                <<"ok", "ok">>)
          ELSE ls

\* handleFetchRepos: fetchRepos(token, org); the repositories returned are
\* selected, and none is when the call throws
FetchReposClick ==
  /\ token # ""
  /\ \E ok \in BOOLEAN :
       /\ fetchThroughCache("repos", reposCacheKey(FrOrg), ok)
       /\ hasSelection' =
            (getFromCacheResult(localStorage, reposCacheKey(FrOrg), now) # <<>>
             \/ ok)
  /\ leaderboardShown' = FALSE
  /\ UNCHANGED <<token, loadingStats, renderedLoading, autoRefreshRef,
                 autoRefreshEnabled, activeRuns, pageLoads, error>>
  /\ UNCHANGED <<now, aggVars, cacheTicks, cacheSaved, cacheGot, fsVars,
                 runVars, frVars>>

\* handleGenerateLeaderboard: fetchAllStats(token, ...) reaches the
\* fetchCommits of a selected repository
GenerateFetchesCommits ==
  /\ hasSelection
  /\ \E ok \in BOOLEAN :
       fetchThroughCache("commits",
                         commitsCacheKey(FrOrg, "web", "main", <<>>), ok)
  /\ UNCHANGED <<token, loadingStats, renderedLoading, autoRefreshRef,
                 autoRefreshEnabled, leaderboardShown, hasSelection,
                 activeRuns, pageLoads, error>>
  /\ UNCHANGED <<now, aggVars, cacheTicks, cacheSaved, cacheGot, fsVars,
                 runVars, frVars>>

NextTokens ==
  \/ TypeToken
  \/ ClearToken
  \/ PageReload
  \/ ClearCacheClick
  \/ FetchReposClick
  \/ GenerateFetchesCommits

SpecTokens == InitTokens /\ [][NextTokens]_vars

---------------------------------------------------------------------------
(* A run started by handleGenerateLeaderboard, up to the finally block.    *)
(* Every request is answered and every continuation is run: weak fairness  *)
(* on the steps of the run and of the handler.                             *)

\* the App after the synchronous part of handleGenerateLeaderboard, called
\* from a click with repositories selected
AppAwaiting ==
  /\ token = "ghp_a"
  /\ loadingStats = TRUE
  /\ renderedLoading = TRUE
  /\ autoRefreshRef = FALSE
  /\ autoRefreshEnabled = TRUE
  /\ leaderboardShown = FALSE
  /\ hasSelection = TRUE
  /\ activeRuns = 1
  /\ pageLoads = 0
  /\ error = ""

InitAwait ==
  /\ RunCalled
  /\ runRepos # <<>>
  /\ ~storageFull
  /\ AppAwaiting

\* the awaited fetchAllStats has returned: the rest of the handler
AwaitReturns ==
  /\ runPc = "returned"
  /\ activeRuns = 1
  /\ loadingStats' = flagAfterRun("returned")
  /\ activeRuns' = 0
  /\ leaderboardShown' = (runResult[1] # <<>>)
  /\ UNCHANGED <<token, renderedLoading, autoRefreshRef, autoRefreshEnabled,
                 hasSelection, pageLoads, error>>
  /\ UNCHANGED <<now, aggVars, cacheVars, fsVars, runVars, frVars, keyVars>>

NextAwait ==
  \/ Next
  \/ AwaitReturns

\* the steps that wait for a response or read the cache, and the handler's
\* continuation
AwaitedStep ==
  \/ RunBegin
  \/ CommitsResponse
  \/ AfterCommits
  \/ PrsResponse
  \/ PrDetailResponse
  \/ AfterPrs
  \/ ReviewsResponse
  \/ AwaitReturns

\* the end of an iteration (AfterReviews or AfterThrow), told by the program
\* counter alone: every such step leaves "reviews_done" or "threw"
IterationEnds ==
  /\ runPc \in {"reviews_done", "threw"}
  /\ runPc' \in {"commits", "commits_done", "returned"}

SpecAwait ==
  /\ InitAwait
  /\ [][NextAwait]_vars
  /\ WF_vars(AwaitedStep)
  /\ WF_runPc(IterationEnds)

---------------------------------------------------------------------------
(* Properties of aggregateStats *)

Calls == 1..Len(aggResult)

Records(k) == {aggResult[k][j] : j \in 1..Len(aggResult[k])}

\* the commits of login u in the argument of call k
InputCommits(k, u) ==
  {<<r, c>> \in (1..Len(inputAtCall[k])) \X (1..MaxItems + 1) :
     /\ c <= Len(inputAtCall[k][r].commits)
     /\ inputAtCall[k][r].commits[c].user = u}

InputCommitDate(k, rc) == inputAtCall[k][rc[1]].commits[rc[2]].date

\* the commit count the result of call k gives login u (0 when u is absent)
ResultCommits(k, u) ==
  IF \E rec \in Records(k) : rec.user = u
  THEN (CHOOSE rec \in Records(k) : rec.user = u).commits
  ELSE 0

\* C1: in every record aggregateStats returns, net is additions minus
\* deletions.
C1_NetIsAdditionsMinusDeletions ==
  \A k \in Calls : \A rec \in Records(k) :
    rec.net = rec.additions - rec.deletions

\* a returned record with line counts on both sides
C1_Witness ==
  \E k \in Calls : \E rec \in Records(k) :
    rec.additions > 0 /\ rec.deletions > 0 /\ rec.net # rec.additions

\* C2: every returned weekly series has ceil(windowDays / 7) entries when a
\* window is set and 52 when it is not; its week keys are distinct and
\* exactly 7 days apart, and the last key is the Sunday-aligned week that
\* holds the current time.
C2_WeeklySeriesShape ==
  \A k \in Calls : \A rec \in Records(k) :
    LET w == rec.weeklyData
        n == Len(w)
    IN /\ IF daysFilter = 0 THEN n = 52
          ELSE 7 * n >= daysFilter /\ 7 * (n - 1) < daysFilter
       /\ Cardinality({w[i].week : i \in 1..n}) = n
       /\ \A i \in 1..(n - 1) : w[i + 1].week - w[i].week = 7 * 24 * 60 * 60
       /\ n >= 1
       /\ w[n].week % (7 * 24 * 60 * 60) = 0
       /\ w[n].week * 1000 <= nowAtCall[k]
       /\ nowAtCall[k] < (w[n].week + 7 * 24 * 60 * 60) * 1000

\* a series of two weeks for the 8-day window, with a commit in one of them
C2_Witness ==
  /\ daysFilter = 8
  /\ \E k \in Calls : \E rec \in Records(k) :
       /\ Len(rec.weeklyData) = 2
       /\ \E i \in 1..2 : rec.weeklyData[i].commits > 0

C4_CutoffBoundaryExact ==
  \A k \in Calls : \A u \in {"alice", "bob"} :
    LET cut == nowAtCall[k] - daysFilter * DayMs
        at  == {rc \in InputCommits(k, u) : InputCommitDate(k, rc) = cut}
        allOnBoundary ==
          \A rc \in InputCommits(k, u) :
            InputCommitDate(k, rc) \in {cut, cut - 1}
    IN (daysFilter # 0 /\ allOnBoundary) =>
         ResultCommits(k, u) = Cardinality(at)

\* C5: no returned record has additions, deletions, commits, pull requests
\* and reviews all zero.
C5_NoAllZeroRecord ==
  \A k \in Calls : \A rec \in Records(k) :
    ~(rec.additions = 0 /\ rec.deletions = 0 /\ rec.commits = 0
        /\ rec.pullRequests = 0 /\ rec.reviews = 0)

\* carol is known from a single review that lies before the cutoff, so her
\* accumulator entry exists with all totals zero, and she is not returned
C5_Witness ==
  /\ daysFilter # 0
  /\ Len(aggResult) >= 1
  /\ aggResult[1] # <<>>
  /\ \E r \in 1..Len(inputAtCall[1]) :
       \E j \in 1..Len(inputAtCall[1][r].reviews) :
         LET e == inputAtCall[1][r].reviews[j]
         IN /\ e.user = "carol"
            /\ e.submitted_at[1] < nowAtCall[1] - daysFilter * DayMs
  /\ \A rec \in Records(1) : rec.user # "carol"


---------------------------------------------------------------------------
(* Properties of the cache *)

\* the read that was the last step directly followed a save of the same key
ReadRightAfterSave ==
  /\ cacheGot # <<>>
  /\ cacheGot[1].afterSave # <<>>
  /\ cacheGot[1].afterSave[1].key = cacheGot[1].key

\* C6 (as claimed): for every key and payload, saveToCache(key, v) followed
\* immediately by getFromCache(key) returns a value equal to v.
C6_RoundTripEveryPayload ==
  ReadRightAfterSave => cacheGot[1].result = <<cacheGot[1].afterSave[1].data>>

\* C6 (amended): when the payload has no property holding undefined, its
\* serialized text is at most 500 * 1024 characters and localStorage took
\* the write, a read directly after the save returns a value equal to the
\* payload; and a read of an entry written more than 30 minutes ago returns
\* absent and leaves no entry under the key.
C6_RoundTripAndExpiry ==
  /\ ReadRightAfterSave =>
       LET sv == cacheGot[1].afterSave[1]
       IN (/\ sv.data.undefinedProps = 0
           /\ sv.data.bytes + 35 <= 500 * 1024
           /\ (sv.outcome[1] = "ok" \/ sv.outcome = <<"quota", "ok">>))
          => cacheGot[1].result = <<sv.data>>
  /\ cacheGot # <<>> =>
       ((cacheGot[1].age # <<>> /\ cacheGot[1].age[1] > 30 * 60 * 1000)
        => /\ cacheGot[1].result = <<>>
           /\ (CACHE_PREFIX \o cacheGot[1].key) \notin DOMAIN localStorage)

\* the payload at the size limit read back right after its save
C6_WitnessRoundTrip ==
  /\ ReadRightAfterSave
  /\ cacheGot[1].afterSave[1].data.id = 3
  /\ cacheGot[1].result = <<cacheGot[1].afterSave[1].data>>

\* an entry read one millisecond after its TTL and found gone
C6_WitnessExpiry ==
  /\ cacheGot # <<>>
  /\ cacheGot[1].age = <<30 * 60 * 1000 + 1>>
  /\ cacheGot[1].result = <<>>

\* the entries of the store s that are expired at time t
ExpiredKeys(s, t) ==
  {x \in DOMAIN s : startsWith(x, CACHE_PREFIX)
                      /\ t - s[x].timestamp > 30 * 60 * 1000}

\* C14: when localStorage.setItem fails for lack of quota, saveToCache
\* removes the expired entries of the namespace and calls setItem once more;
\* when that call succeeds the entry is stored next to the unexpired ones,
\* when it fails no entry of the namespace is left; saveToCache returns in
\* every case.
C14_QuotaPurgeRetryOnce ==
  cacheSaved # <<>> =>
    LET sv  == cacheSaved[1]
        k   == CACHE_PREFIX \o sv.key
        old == sv.before
        kept == DOMAIN old \ ExpiredKeys(old, now)
    IN /\ sv.end # "threw"
       /\ (sv.data.bytes + 35 <= 500 * 1024 /\ sv.outcome[1] = "quota") =>
            /\ sv.setItemCalls = 2
            /\ sv.outcome[2] = "ok" =>
                 /\ DOMAIN localStorage = kept \cup {k}
                 /\ localStorage[k].timestamp = now
                 /\ localStorage[k].data.id = sv.data.id
                 /\ \A x \in kept \ {k} : localStorage[x] = old[x]
            /\ sv.outcome[2] = "fail" =>
                 \A x \in DOMAIN localStorage : ~startsWith(x, CACHE_PREFIX)

\* a write that hit the quota, purged an expired entry under the other key
\* and was stored by the retry
C14_Witness ==
  /\ cacheSaved # <<>>
  /\ cacheSaved[1].outcome = <<"quota", "ok">>
  /\ cacheSaved[1].data.id = 1
  /\ \E x \in ExpiredKeys(cacheSaved[1].before, now) :
       /\ x # CACHE_PREFIX \o cacheSaved[1].key
       /\ x \notin DOMAIN localStorage
  /\ CACHE_PREFIX \o cacheSaved[1].key \in DOMAIN localStorage

\* a write whose retry failed too: the unexpired entry of the other key is
\* gone with the rest
C14_WitnessGiveUp ==
  /\ cacheSaved # <<>>
  /\ cacheSaved[1].outcome = <<"quota", "fail">>
  /\ cacheSaved[1].data.id = 1
  /\ DOMAIN cacheSaved[1].before \ ExpiredKeys(cacheSaved[1].before, now) # {}
  /\ localStorage = <<>>

\* C15: saveToCache of a payload whose serialized text is longer than
\* 500 * 1024 characters returns and leaves localStorage as it was, the
\* entry stored before under the same key included.
C15_OversizeLeavesStore ==
  (cacheSaved # <<>> /\ cacheSaved[1].data.bytes + 35 > 500 * 1024) =>
    /\ cacheSaved[1].end = "skipped"
    /\ cacheSaved[1].setItemCalls = 0
    /\ localStorage = cacheSaved[1].before

\* the payload one character over the limit saved over an existing entry of
\* the same key, which is still there
C15_Witness ==
  /\ cacheSaved # <<>>
  /\ cacheSaved[1].data.id = 4
  /\ CACHE_PREFIX \o cacheSaved[1].key \in DOMAIN localStorage
  /\ localStorage[CACHE_PREFIX \o cacheSaved[1].key].data.id = 1

---------------------------------------------------------------------------
(* Properties of fetchStats *)

\* C7: when stats/contributors answers 202 on every poll, fetchStats sends
\* the first request and at most 3 more, then returns what
\* fetchCommitsAsStats returns; it does not throw.
C7_Always202FallsBack ==
  /\ (fsAll202 /\ fsRequests >= 1) => (fsPc # "threw" /\ fsRequests <= 1 + 3)
  /\ (fsAll202 /\ fsRequests >= 1 /\ fsPc = "done") =>
       /\ fsRequests = 1 + 3
       /\ fsFallback # <<>>
       /\ fsResult = fsFallback
       /\ fsResult[1].kind = "commits"

\* four polls answered 202, then the fallback collected three full pages of
\* commits over the network and returned stats derived from them
C7_Witness ==
  /\ fsPc = "done"
  /\ fsAll202
  /\ fsRequests = 4
  /\ fsPageReqs = 3
  /\ fsDetail = 50
  /\ fsResult = <<commitDerivedStats(300, fsDetailOk)>>

---------------------------------------------------------------------------
(* Properties of fetchAllStats *)

Total == Len(runRepos)

CountIn(trace, kind, k) ==
  Cardinality({q \in 1..Len(trace) : trace[q] = Ev(kind, k)})

CountKind(kind, k) == CountIn(events, kind, k)

\* the repositories whose collection threw, as the error entries tell
Failed == {k \in 1..Total : CountKind("error", k) > 0}

\* the records without the one at position f
Without(arr, f) ==
  [k \in 1..(Len(arr) - 1) |-> IF k < f THEN arr[k] ELSE arr[k + 1]]

\* a run that has returned with exactly one failed repository: that one has
\* an empty record, every repository has its record, the others were
\* started and completed, and the result is the aggregate of the others
C8_AtReturn ==
  (runPc = "returned" /\ Cardinality(Failed) = 1) =>
    LET f == CHOOSE k \in Failed : TRUE
    IN /\ Len(repoDataArray) = Total
       /\ repoDataArray[f] =
            [repoName |-> runRepos[f].name, commits |-> <<>>, prs |-> <<>>,
             reviews |-> <<>>]
       /\ \A k \in (1..Total) \ {f} :
            /\ CountKind("start", k) = 1
            /\ CountKind("complete", k) = 1
            /\ repoDataArray[k].repoName = runRepos[k].name
       /\ runResult =
            <<aggregateStats(Without(repoDataArray, f), daysFilter, now)>>

\* the step taken when a fetcher has thrown: one error entry for the
\* repository, an empty record for it, and the run goes on
C8_StepAfterThrow ==
  runPc = "threw" =>
    /\ CountKind("error", runIdx) = 0
    /\ CountIn(events', "error", runIdx) = 1
    /\ CountIn(events', "complete", runIdx) = 0
    /\ repoDataArray' =
         Append(repoDataArray,
                [repoName |-> runRepos[runIdx].name, commits |-> <<>>,
                 prs |-> <<>>, reviews |-> <<>>])
    /\ runIdx < Total =>
         /\ runIdx' = runIdx + 1
         /\ CountIn(events', "start", runIdx') = 1
    /\ runIdx = Total => runPc' = "returned"

\* C8: if collecting one repository throws, the run logs an error for it,
\* records it with empty commits, PRs and reviews, still processes every
\* remaining repository, and returns the aggregate over the other N-1
\* repositories' data.
C8_OneFailureIsolated == [](C8_AtReturn) /\ [][C8_StepAfterThrow]_vars

\* three repositories, the second one threw after its commits had been
\* collected, the other two completed and contribute to the result
C8_Witness ==
  /\ runPc = "returned"
  /\ Total = 3
  /\ Failed = {2}
  /\ Len(repoDataArray[1].commits) = 2
  /\ Len(events) > 12
  /\ runResult # <<<<>>>>

\* what may directly follow what in the trace of a run
Follows(a, b) ==
  \/ /\ a.index = b.index
     /\ a.kind \in {"start", "request"}
     /\ b.kind \in {"request", "complete", "error"}
  \/ /\ a.index = b.index
     /\ a.kind \in {"complete", "error"}
     /\ b.kind = "progress"
  \/ /\ a.index = b.index
     /\ a.kind = "progress"
     /\ b.kind = "snapshot"
  \/ /\ b.index = a.index + 1
     /\ a.kind = "snapshot"
     /\ b.kind = "start"

\* C9: repositories are processed strictly one at a time in list order:
\* each gets one start log before any of its requests, then exactly one
\* complete or error log, then its progress report and snapshot, and
\* nothing of repository i+1 happens before the snapshot of repository i.
C9_StrictlySequential ==
  /\ events # <<>> => events[1] = Ev("start", 1)
  /\ \A q \in 1..(Len(events) - 1) : Follows(events[q], events[q + 1])
  /\ \A k \in 1..Len(repoDataArray) :
       repoDataArray[k].repoName = runRepos[k].name
  /\ runPc = "returned" =>
       \A k \in 1..Total :
         /\ CountKind("start", k) = 1
         /\ CountKind("complete", k) + CountKind("error", k) = 1
         /\ CountKind("progress", k) = 1
         /\ CountKind("snapshot", k) = 1

\* three repositories done: the first with five requests and a complete
\* entry, the second with an error entry
C9_Witness ==
  /\ runPc = "returned"
  /\ Total = 3
  /\ CountKind("request", 1) = 5
  /\ CountKind("complete", 1) = 1
  /\ CountKind("error", 2) = 1
  /\ CountKind("request", 3) = 2

---------------------------------------------------------------------------
(* Properties of fetchPullRequests *)

\* C11: with a since-date, once a fetched page holds at least one PR and
\* none of its PRs has an effective date (merged-at, else closed-at, else
\* updated-at) on or after the cutoff, no further page is requested: every
\* page before the last requested one was empty or had a PR that passes.
C11_EarlyStopOnFilteredPage ==
  sinceDate # <<>> =>
    \A q \in 1..(runPage - 1) :
      LET items == runRepos[runIdx].prPages[q].items
          eff(pr) == IF pr.merged_at # <<>> THEN pr.merged_at[1]
                     ELSE IF pr.closed_at # <<>> THEN pr.closed_at[1]
                     ELSE pr.updated_at
      IN items = <<>> \/ \E j \in 1..Len(items) : eff(items[j]) >= sinceDate[1]

\* the listing has three pages; the first kept one PR, the second is a
\* full page of PRs older than the window, and the loop has ended there
C11_Witness ==
  /\ runPc \in {"pr_detail", "prs_done"}
  /\ Len(runRepos[1].prPages) = 3
  /\ runRepos[1].prPages[2] = PullPage("old", 2)
  /\ runRepos[1].prPages[3] = PullPage("mixed", 3)
  /\ runPage = 2
  /\ Len(runPrs) = 1
  /\ Cardinality({q \in 1..Len(events) : events[q].kind = "request"}) >= 2

---------------------------------------------------------------------------
(* Properties of aggregateStats: per-PR and per-commit processing *)

RECURSIVE SumOver(_, _)
SumOver(S, f) ==
  IF S = {} THEN 0
  ELSE LET x == CHOOSE y \in S : TRUE IN f[x] + SumOver(S \ {x}, f)

\* an item dated d is counted by call k: no window, or its second is not
\* before the second of the cutoff
CountedAt(k, d) ==
  \/ daysFilter = 0
  \/ d \div 1000 >= (nowAtCall[k] - daysFilter * 24 * 60 * 60 * 1000) \div 1000

PrDateOf(pr) == IF pr.merged_at # <<>> THEN pr.merged_at[1] ELSE pr.created_at

\* positions <<repository, index>> of the counted PRs of login u in call k
CountedPRs(k, u) ==
  {rp \in (1..Len(inputAtCall[k])) \X (1..MaxItems + 1) :
     /\ rp[2] <= Len(inputAtCall[k][rp[1]].prs)
     /\ inputAtCall[k][rp[1]].prs[rp[2]].user = u
     /\ CountedAt(k, PrDateOf(inputAtCall[k][rp[1]].prs[rp[2]]))}

PrAt(k, rp) == inputAtCall[k][rp[1]].prs[rp[2]]

\* lines a PR contributes: its additions / deletions exactly when it is
\* merged and carries enrichment
PrAdds(pr) ==
  IF pr.merged_at # <<>> /\ pr.additions # <<>> THEN pr.additions[1] ELSE 0

PrDels(pr) ==
  IF pr.merged_at # <<>> /\ pr.deletions # <<>> THEN pr.deletions[1] ELSE 0

\* the repositories of call k in which login u has counted activity: a
\* counted commit, a counted PR, or a review that is counted
ActiveRepos(k, u) ==
  {r \in 1..Len(inputAtCall[k]) :
     LET rec == inputAtCall[k][r]
     IN \/ \E c \in 1..Len(rec.commits) :
             rec.commits[c].user = u /\ CountedAt(k, rec.commits[c].date)
        \/ \E q \in 1..Len(rec.prs) :
             rec.prs[q].user = u /\ CountedAt(k, PrDateOf(rec.prs[q]))
        \/ \E e \in 1..Len(rec.reviews) :
             /\ rec.reviews[e].user = u
             /\ IF rec.reviews[e].submitted_at = <<>>
                THEN rec.reviews[e].count > 0
                ELSE \E d \in 1..Len(rec.reviews[e].submitted_at) :
                       \/ daysFilter = 0
                       \/ rec.reviews[e].submitted_at[d] >=
                            nowAtCall[k] - daysFilter * 24 * 60 * 60 * 1000}

\* the PR counts and line totals of every returned record are those of the
\* counted PRs of its login, in total and week by week, and its commit
\* count is the number of its counted commits
C12_Totals ==
  \A k \in Calls : \A rec \in Records(k) :
    LET P == CountedPRs(k, rec.user)
        adds == [rp \in P |-> PrAdds(PrAt(k, rp))]
        dels == [rp \in P |-> PrDels(PrAt(k, rp))]
    IN /\ rec.pullRequests = Cardinality(P)
       /\ rec.additions = SumOver(P, adds)
       /\ rec.deletions = SumOver(P, dels)
       /\ rec.commits =
            Cardinality({rc \in InputCommits(k, rec.user) :
                           CountedAt(k, InputCommitDate(k, rc))})
       /\ \A i \in 1..Len(rec.weeklyData) :
            LET W == {rp \in P :
                        LET d == PrDateOf(PrAt(k, rp))
                        IN (d - (d % (7 * 24 * 60 * 60 * 1000))) \div 1000
                             = rec.weeklyData[i].week}
            IN /\ rec.weeklyData[i].pullRequests = Cardinality(W)
               /\ rec.weeklyData[i].additions = SumOver(W, adds)
               /\ rec.weeklyData[i].deletions = SumOver(W, dels)

\* a contributor with counted activity in one repository has reposCount 1
C12_OneRepoCountsOnce ==
  \A k \in Calls : \A rec \in Records(k) :
    Cardinality(ActiveRepos(k, rec.user)) = 1 => rec.reposCount = 1

\* C12 (as claimed): every counted PR with an author raises the author's PR
\* count by one and, exactly when merged and enriched, adds its additions
\* and deletions to the author's totals and to the PR's week bucket;
\* commits change only the commit count; a contributor with activity in
\* one repository has a repos-contributed count of 1.
C12_PerPRProcessing == C12_Totals /\ C12_OneRepoCountsOnce

\* C17 (as claimed): a repository that had a request answered with a
\* rate-limit response (403, not ok) gets an error log entry, and the
\* repositories after it are still processed.
C17_RateLimitBecomesErrorEntry ==
  runPc = "returned" =>
    /\ \A k \in refused : CountKind("error", k) = 1
    /\ \A k \in 1..Total :
         CountKind("complete", k) + CountKind("error", k) = 1

---------------------------------------------------------------------------
(* Properties of fetchRepos *)

\* C16: a page response that is not 2xx makes fetchRepos throw exactly one
\* failure: 401 invalid credentials, 404 organization not found, 403 with
\* x-ratelimit-remaining "0" rate-limited with the reset time, any other 403
\* forbidden, any other status a failure with the status code and text;
\* after it no request is sent, nothing is returned and the cache has no
\* entry for the listing, whatever pages succeeded before.
C16_ErrorClassification ==
  /\ [](frPc = "threw" /\ frLast # <<>> =>
         LET r == frLast[1]
         IN /\ ~(r.status >= 200 /\ r.status <= 299)
            /\ frError # <<>>
            /\ r.status = 401 => frError[1].kind = "invalid token"
            /\ r.status = 404 => frError[1] = [kind |-> "org not found", org |-> "acme"]
            /\ (r.status = 403 /\ r.remaining = <<"0">>) =>
                  frError[1] = [kind |-> "rate limit",
                                resetsAt |-> r.reset[1] % 86400]
            /\ (r.status = 403 /\ r.remaining # <<"0">>) =>
                  frError[1].kind = "forbidden"
            /\ r.status \notin {401, 403, 404} =>
                  frError[1] = [kind |-> "failed", status |-> r.status,
                                statusText |-> r.statusText]
            /\ frResult = <<>>
            /\ (CACHE_PREFIX \o "repos_acme") \notin DOMAIN localStorage)
  /\ [][frPc = "threw" => (frCalls' = frCalls + 1 /\ frRequests' = 0)]_vars

\* the third page of a listing answered 403 with no rate budget left, after
\* two full pages
C16_Witness ==
  /\ frPc = "threw"
  /\ frRequests = 3
  /\ frCount = 200
  /\ frLast # <<>>
  /\ frLast[1].status = 403
  /\ frLast[1].remaining = <<"0">>
  /\ frError = <<[kind |-> "rate limit", resetsAt |-> (RunNow \div 1000 + 1800) % 86400]>>

---------------------------------------------------------------------------
(* Properties of the cache keys *)

\* C19 (as claimed): queries that differ in kind, organization, repository,
\* branch or since-day never share a cache key: what a read returns was
\* stored for the very query that reads.
C19_OneKeyPerQuery ==
  (keyGot # <<>> /\ keyGot[1].result # <<>>) =>
     keyGot[1].result[1].value = keyGot[1].query

---------------------------------------------------------------------------
(* Properties of the App *)

\* C13 (as claimed): at most one fetchAllStats run is in progress at any
\* time, whatever the order of timer ticks, Generate clicks, Refresh clicks
\* and run completions.
C13_SingleFlight == activeRuns <= 1

\* C18 (as claimed): the personal access token lives only in the App's
\* in-memory state: it is never written to localStorage, and after a page
\* reload the token is empty.
C18_TokenOnlyInMemory ==
  /\ [](TOKEN_STORAGE_KEY \notin DOMAIN localStorage)
  /\ [][pageLoads' = pageLoads + 1 => token' = ""]_vars

\* C20: when every request is answered and every listing ends, fetchAllStats
\* runs to completion and returns the final aggregate, and after it the
\* handler clears loadingStats, which then stays cleared.
C20_RunCompletesAndFlagCleared ==
  <>[](/\ runPc = "returned"
       /\ runResult # <<>>
       /\ Len(repoDataArray) = Len(runRepos)
       /\ ~loadingStats
       /\ activeRuns = 0)

\* a run over three repositories has returned and the flag is cleared
C20_Witness ==
  /\ runPc = "returned"
  /\ Total = 3
  /\ runResult # <<>>
  /\ activeRuns = 0
  /\ ~loadingStats

---------------------------------------------------------------------------
(* Properties of the per-contributor lists *)

\* the commits of login u in the argument of call k that pass the window
CountedCommits(k, u) ==
  UNION {{<<r, c>> : c \in {j \in 1..Len(inputAtCall[k][r].commits) :
                              /\ inputAtCall[k][r].commits[j].user = u
                              /\ commitInWindow(inputAtCall[k][r].commits[j],
                                                daysFilter, nowAtCall[k])}}
         : r \in 1..Len(inputAtCall[k])}

\* the pull requests of login u in the argument of call k that pass the
\* window
CountedPulls(k, u) ==
  UNION {{<<r, p>> : p \in {j \in 1..Len(inputAtCall[k][r].prs) :
                              /\ inputAtCall[k][r].prs[j].user = u
                              /\ prInWindow(inputAtCall[k][r].prs[j],
                                            daysFilter, nowAtCall[k])}}
         : r \in 1..Len(inputAtCall[k])}

DescendingByDate(list) ==
  \A i, j \in 1..Len(list) : i < j => list[i].date >= list[j].date

\* C21: in every record aggregateStats returns, commitsList, prsList and
\* reviewsList hold at most 20 items each, commitsList and prsList are in
\* descending order of date, and reviewsList has no two entries with the
\* same repository and PR number.
C21_ListsCappedSortedDistinct ==
  \A k \in Calls : \A rec \in Records(k) :
    /\ Len(rec.commitsList) <= 20
    /\ Len(rec.prsList) <= 20
    /\ Len(rec.reviewsList) <= 20
    /\ DescendingByDate(rec.commitsList)
    /\ DescendingByDate(rec.prsList)
    /\ \A i, j \in 1..Len(rec.reviewsList) :
         i # j => \/ rec.reviewsList[i].number # rec.reviewsList[j].number
                  \/ rec.reviewsList[i].repo # rec.reviewsList[j].repo

\* a call whose result has a contributor with more than 20 commits and
\* pull requests and full lists of them, the items of the second
\* repository newer than those of the first, and a reviewer with more than
\* 20 reviewed pull requests over two repositories
C21_Witness ==
  \E k \in Calls :
    /\ Len(inputAtCall[k]) = 2
    /\ \E rec \in Records(k) :
         /\ rec.commits > 20 /\ Len(rec.commitsList) = 20
         /\ rec.pullRequests > 20 /\ Len(rec.prsList) = 20
         /\ \E i, j \in 1..20 : rec.commitsList[i].repo # rec.commitsList[j].repo
         /\ rec.commitsList[1].repo = RepoNames[2]
         /\ rec.prsList[1].repo = RepoNames[2]
    /\ \E rec \in Records(k) :
         /\ rec.reviews > 20 /\ Len(rec.reviewsList) = 20
         /\ Len(inputAtCall[k][2].reviews) = 1

\* C22 (as claimed): commitsList holds the most recent of the contributor's
\* counted commits over all aggregated repositories (no counted commit that
\* is left out is newer than one that is listed), and prsList likewise for
\* the counted pull requests.
C22_ListsHoldMostRecent ==
  \A k \in Calls : \A rec \in Records(k) :
    /\ \A rc \in CountedCommits(k, rec.user) :
         LET c == inputAtCall[k][rc[1]].commits[rc[2]]
             repo == inputAtCall[k][rc[1]].repoName
         IN \/ \E j \in 1..Len(rec.commitsList) :
                 rec.commitsList[j].sha = c.sha /\ rec.commitsList[j].repo = repo
            \/ \A j \in 1..Len(rec.commitsList) :
                 rec.commitsList[j].date >= c.date
    /\ \A rp \in CountedPulls(k, rec.user) :
         LET p == inputAtCall[k][rp[1]].prs[rp[2]]
             repo == inputAtCall[k][rp[1]].repoName
         IN \/ \E j \in 1..Len(rec.prsList) :
                 rec.prsList[j].number = p.number /\ rec.prsList[j].repo = repo
            \/ \A j \in 1..Len(rec.prsList) :
                 rec.prsList[j].date >= prDate(p)

---------------------------------------------------------------------------
(* Properties of the request volume *)

\* the collected pull requests that carry line stats of a detail response
Enriched == {k \in 1..Len(runPrs) : runPrs[k].additions # <<>>}

MergedCollected == {k \in 1..Len(runPrs) : runPrs[k].merged_at # <<>>}

\* C23: with a since-date fetchCommits and fetchPullRequests request at most
\* 10 pages each; fetchPullRequests requests detail for at most 30 pull
\* requests, all of them merged; fetchReviews requests reviews for at most
\* 50 pull requests; fetchCommitsAsStats requests at most 3 commit pages and
\* detail for at most 50 commits; a listing requests the next page only if
\* the previous page held exactly 100 items.
C23_RequestVolumeBounded ==
  /\ (sinceDate # <<>> /\ runPc \in {"commits", "prs"}) => runPage <= 10
  /\ runPc = "pr_detail" =>
       /\ runCursor <= 30
       /\ runPrs[mergedPositions(runPrs)[runCursor]].merged_at # <<>>
  /\ Cardinality(Enriched) <= 30
  /\ Enriched \subseteq MergedCollected
  /\ runPc = "reviews" => runCursor <= 50
  /\ (sinceDate # <<>> /\ runIdx = 1) => CountKind("request", 1) <= 100
  /\ fsPageReqs <= 3
  /\ fsDetail <= 50
  /\ (runPc = "commits" /\ runPage > 1) =>
       servedPage(currentRepo.commitPages, runPage - 1).len = 100
  /\ (runPc = "prs" /\ runPage > 1) =>
       servedPage(currentRepo.prPages, runPage - 1).len = 100
  /\ (fsPc = "fb_page" /\ fsPage > 1) => fsCommits = 100 * (fsPage - 1)

\* with a since-date: the 50th review request goes out after ten full pages
\* of an eleven-page listing were requested and 30 of the more than 30
\* merged pull requests got their details
C23_Witness ==
  /\ runPc = "reviews"
  /\ runCursor = 50
  /\ sinceDate # <<>>
  /\ runPage = 10
  /\ Len(currentRepo.prPages) > 10
  /\ currentRepo.prPages[10].len = 100
  /\ Len(runPrs) > 50
  /\ Cardinality(MergedCollected) > 30
  /\ Cardinality(Enriched) = 30

\* with a since-date: fetchCommits has returned after ten full pages of a
\* listing that has an eleventh
C23_WitnessCommits ==
  /\ runPc = "commits_done"
  /\ sinceDate # <<>>
  /\ runPage = 10
  /\ Len(currentRepo.commitPages) > 10
  /\ currentRepo.commitPages[10].len = 100

\* the fallback asks for the 50th commit detail after three full pages
C23_WitnessFallback ==
  /\ fsPc = "fb_detail"
  /\ fsPageReqs = 3
  /\ fsCommits = 300
  /\ fsDetail = 50

---------------------------------------------------------------------------
(* Properties of the review, week and repository accounting *)

\* the accumulator after the forEach over the argument of call k
Accumulated(k) ==
  foldRepos(<<>>, inputAtCall[k], 1, daysFilter, nowAtCall[k])

\* the review entries of the argument of call k, as <<repository, entry>>
ReviewEntries(k) ==
  UNION {{<<r, e>> : e \in 1..Len(inputAtCall[k][r].reviews)}
         : r \in 1..Len(inputAtCall[k])}

EntryAt(k, re) == inputAtCall[k][re[1]].reviews[re[2]]

\* the timestamps of an entry at or after the cutoff of call k
CountedStamps(k, re) ==
  {j \in 1..Len(EntryAt(k, re).submitted_at) :
     \/ daysFilter = 0
     \/ EntryAt(k, re).submitted_at[j] >= nowAtCall[k] - daysFilter * DayMs}

\* what one entry adds to its login's review count
ReviewsAdded(k, re) ==
  IF Len(EntryAt(k, re).submitted_at) > 0
  THEN Cardinality(CountedStamps(k, re))
  ELSE EntryAt(k, re).count

\* what one entry adds to the review count of the week bucket w
BucketAdded(k, re, w) ==
  Cardinality({j \in CountedStamps(k, re) :
                 weekTs(EntryAt(k, re).submitted_at[j]) = w})

\* C24: for each login's review record, when it carries timestamps the
\* login's review count rises by the number of timestamps at or after the
\* cutoff and each of them raises the review count of its Sunday-aligned
\* week bucket by one; when it carries none the raw count is added and no
\* week bucket changes.
C24_ReviewRecordAccounting ==
  \A k \in Calls :
    LET acc == Accumulated(k)
    IN \A i \in 1..Len(acc) :
         LET mine == {re \in ReviewEntries(k) :
                        EntryAt(k, re).user = acc[i].user}
             added == [re \in mine |-> ReviewsAdded(k, re)]
         IN /\ acc[i].reviews = SumOver(mine, added)
            /\ \A w \in DOMAIN acc[i].weeklyData :
                 acc[i].weeklyData[w].reviews =
                   SumOver(mine, [re \in mine |-> BucketAdded(k, re, w)])
            /\ \A re \in mine : \A j \in CountedStamps(k, re) :
                 weekTs(EntryAt(k, re).submitted_at[j])
                   \in DOMAIN acc[i].weeklyData
            /\ \A rec \in Records(k) :
                 rec.user = acc[i].user => rec.reviews = acc[i].reviews

\* a call with a window over two repositories: a reviewer with timestamps
\* on both sides of the cutoff, counted in two different weeks, and a
\* reviewer without timestamps who has a count and no week bucket
C24_Witness ==
  \E k \in Calls :
    /\ daysFilter # 0
    /\ Len(inputAtCall[k]) = 2
    /\ \E re \in ReviewEntries(k) :
         /\ CountedStamps(k, re) # {}
         /\ Cardinality(CountedStamps(k, re)) < Len(EntryAt(k, re).submitted_at)
         /\ \E j \in CountedStamps(k, re) :
              EntryAt(k, re).submitted_at[j] = nowAtCall[k] - daysFilter * DayMs
    /\ \E rec \in Records(k) : rec.user = "dave" /\ rec.reviews = 6
    /\ \E i \in 1..Len(Accumulated(k)) :
         /\ Accumulated(k)[i].user = "dave"
         /\ Accumulated(k)[i].weeklyData = <<>>

\* the sum of one field over the weekly series of a returned record
SeriesSum(rec, field) ==
  SumOver(1..Len(rec.weeklyData),
          [i \in 1..Len(rec.weeklyData) |-> rec.weeklyData[i][field]])

\* the counted reviews of login u in call k that carry a timestamp
TimedReviews(k, u) ==
  LET mine == {re \in ReviewEntries(k) : EntryAt(k, re).user = u}
  IN SumOver(mine, [re \in mine |-> Cardinality(CountedStamps(k, re))])

\* C25 (as claimed): with a window set, every commit, pull request and
\* timestamped review counted in a contributor's totals also appears in the
\* weekly series: the sums over the weekly buckets equal the totals.
C25_SeriesSumsEqualTotals ==
  \A k \in Calls : \A rec \in Records(k) :
    daysFilter # 0 =>
      /\ SeriesSum(rec, "commits") = rec.commits
      /\ SeriesSum(rec, "pullRequests") = rec.pullRequests
      /\ SeriesSum(rec, "reviews") = TimedReviews(k, rec.user)

---------------------------------------------------------------------------
(* fetchPullRequests against aggregateStats *)

\* aggregateStats over what fetchPullRequests returned, for the window the
\* since-date was computed from and at the same clock reading
PullsAggregated ==
  aggregateStats(<<[repoName |-> currentRepo.name, commits |-> <<>>,
                    prs |-> runPrs, reviews |-> <<>>]>>, daysFilter, now)

PullAuthors == {runPrs[k].user : k \in 1..Len(runPrs)} \ {""}

\* the pullRequests total aggregateStats gives login u (0 when u is absent)
PullsCountedFor(u) ==
  LET recs == {PullsAggregated[j] : j \in 1..Len(PullsAggregated)}
  IN IF \E rec \in recs : rec.user = u
     THEN (CHOOSE rec \in recs : rec.user = u).pullRequests
     ELSE 0

KeptOf(u) == {k \in 1..Len(runPrs) : runPrs[k].user = u}

\* C26 (as claimed): for the same window, every pull request with an author
\* that fetchPullRequests keeps under its since filter is counted in that
\* author's pullRequests total by aggregateStats.
C26_KeptIsCounted ==
  (runPc = "prs_done" /\ sinceDate # <<>>) =>
    \A u \in PullAuthors : PullsCountedFor(u) = Cardinality(KeptOf(u))

\* C26 (amended): a kept pull request with an author is counted when it is
\* merged, or when it is unmerged and was created at or after the cutoff;
\* a kept unmerged pull request created before the cutoff is not counted.
C26_KeptCountedByMergeOrCreation ==
  (runPc = "prs_done" /\ sinceDate # <<>>) =>
    \A u \in PullAuthors :
      PullsCountedFor(u) =
        Cardinality({k \in KeptOf(u) :
                       \/ runPrs[k].merged_at # <<>>
                       \/ runPrs[k].created_at \div 1000
                            >= (now - daysFilter * DayMs) \div 1000})

\* fetchPullRequests has returned a merged pull request and an open one that
\* was created before the window and updated inside it
C26_Witness ==
  /\ runPc = "prs_done"
  /\ sinceDate # <<>>
  /\ \E k \in 1..Len(runPrs) : runPrs[k].merged_at # <<>> /\ runPrs[k].user # ""
  /\ \E k \in 1..Len(runPrs) :
       /\ runPrs[k].merged_at = <<>>
       /\ runPrs[k].user # ""
       /\ runPrs[k].created_at < sinceDate[1]
  /\ \E u \in PullAuthors :
       PullsCountedFor(u) > 0 /\ PullsCountedFor(u) < Cardinality(KeptOf(u))

---------------------------------------------------------------------------
(* Properties of the repository count *)

\* C27 (as claimed): a repository is in a contributor's repository set only
\* if a commit, pull request or review of that contributor from that
\* repository was counted, and reposCount never exceeds the number of
\* repositories aggregated.
C27_ReposCountOnlyActive ==
  \A k \in Calls :
    /\ \A i \in 1..Len(Accumulated(k)) :
         Accumulated(k)[i].reposContributed \subseteq
           {inputAtCall[k][r].repoName :
              r \in ActiveRepos(k, Accumulated(k)[i].user)}
    /\ \A rec \in Records(k) :
         /\ rec.reposCount <= Cardinality(ActiveRepos(k, rec.user))
         /\ rec.reposCount <= Len(inputAtCall[k])

\* the second half alone: reposCount never exceeds the number of
\* repositories aggregated
C27_ReposCountBounded ==
  \A k \in Calls : \A rec \in Records(k) :
    rec.reposCount <= Len(inputAtCall[k])

---------------------------------------------------------------------------
(* Properties of the listing caches *)

\* the localStorage key of the listing whose page is awaited
AwaitedListingKey ==
  CACHE_PREFIX \o
    (IF runPc = "commits"
     THEN commitsCacheKey(RunOrg, currentRepo.name, branchOf(currentRepo),
                          sinceDate)
     ELSE prsCacheKey(RunOrg, currentRepo.name, sinceDate))

\* C28 (as claimed): fetchCommits and fetchPullRequests write a listing to
\* the cache only when every page request of it succeeded: once a page
\* request of a listing is answered with a non-2xx status, the cache has no
\* entry for that listing, so a repeat call within the TTL sends a request
\* again.
C28_TruncatedListingNotCached ==
  [][(runPc \in {"commits", "prs"} /\ refused' # refused) =>
       AwaitedListingKey \notin DOMAIN localStorage']_vars

---------------------------------------------------------------------------
(* Properties of the token and the cache *)

\* C29 (as claimed): data fetched with one token is never returned to a
\* fetch made with a different token: whatever way the App's token changed,
\* fetchRepos and the per-repository fetches answer from the cache only with
\* entries written under the token they are called with.
C29_CacheAnswersOnlyToItsToken ==
  keyGot # <<>> =>
    (keyGot[1].result # <<>> =>
       keyGot[1].result[1].fetchedWith = keyGot[1].query.token)

---------------------------------------------------------------------------
(* Properties of the snapshots of one run *)

\* every contributor of the aggregate `earlier` is in the aggregate `later`
\* with totals that are not smaller
CoveredBy(earlier, later) ==
  \A i \in DOMAIN earlier :
    \E j \in DOMAIN later :
      /\ later[j].user = earlier[i].user
      /\ later[j].additions >= earlier[i].additions
      /\ later[j].deletions >= earlier[i].deletions
      /\ later[j].commits >= earlier[i].commits
      /\ later[j].pullRequests >= earlier[i].pullRequests
      /\ later[j].reviews >= earlier[i].reviews

\* C30 (as claimed): within one fetchAllStats run the additions, deletions,
\* commits, pullRequests and reviews of every contributor in the snapshot
\* delivered after repository i+1 are at least those of the snapshot
\* delivered after repository i, and a contributor of a snapshot is in every
\* later snapshot and in the final result.
C30_SnapshotsGrow ==
  /\ \A i \in 1..(Len(snapshots) - 1) :
       CoveredBy(snapshots[i].data, snapshots[i + 1].data)
  /\ runResult # <<>> =>
       \A i \in DOMAIN snapshots : CoveredBy(snapshots[i].data, runResult[1])

\* the part that holds: with no window (all time) the snapshots grow
C30_SnapshotsGrowAllTime ==
  daysFilter = 0 => C30_SnapshotsGrow

===========================================================================
